---------------------------- MODULE Spec2Model ----------------------------
(***************************************************************************)
(* Model of the trend-analysis core of YT_SEO (src/trend_analyzer.py).     *)
(*                                                                         *)
(* Interest samples are the integers pytrends delivers (0..100).  Every    *)
(* derived quantity is kept exact: rationals are records [n, d] in lowest  *)
(* terms, a value that involves numpy's std is a record [q, c, w] standing *)
(* for q + c*sqrt(w), and comparisons are decided by cross-multiplication  *)
(* on multi-limb naturals, so no threshold test depends on rounding.       *)
(***************************************************************************)
EXTENDS Integers, Sequences, FiniteSets, TLC

VARIABLES
    pc,        \* position of the running call
    series,    \* the interest series handed to an analyzer
    result,    \* what the last completed call returned
    video,     \* video_data of the running analyze_trends / calculate_trend_score
    kws,       \* keywords (analyze_trends, line 38)
    topics,    \* trending_topics
    trends,    \* trends_data: <<keyword, series>> pairs in insertion order
    tags,      \* related_tags
    calls,     \* outcomes of the calls made to the pytrends client, in order
    horizon,        \* periods_ahead of the running forecast_trend call
    lag,            \* period of the running analyze_seasonality call
    trend_history,  \* self.trend_history (line 25), oldest entry first
    analyses,       \* number of analyze_trends calls that have returned
    returns,        \* per keyword, what its analyzer calls (lines 166-184) returned so far
    gui             \* the window of src/main.py: button, status bar, threads, callbacks

vars == <<pc, series, result, video, kws, topics, trends, tags, calls,
          horizon, lag, trend_history, analyses, returns, gui>>

-----------------------------------------------------------------------------
(* Multi-limb naturals: little-endian digits in base 2^13, no leading      *)
(* zero limb.  They hold the products that exceed 32 bits and the          *)
(* mantissas of the doubles.  An operator binds each argument x0 to a      *)
(* bound variable x (x \in {x0}), so that the argument is computed once,   *)
(* where it is passed, as the values of a Python expression are.           *)

Limb == 2^13

RECURSIVE BigOf(_)
BigOf(k) == IF k = 0 THEN <<>> ELSE <<k % Limb>> \o BigOf(k \div Limb)

\* digit i of a, zero outside its length
BigDigit(a, i) == IF i >= 1 /\ i <= Len(a) THEN a[i] ELSE 0

\* a without its leading zero limbs: the limbs up to the last non-zero one
BigStrip(a0) ==
    CHOOSE v \in
      { SubSeq(a, 1, Cardinality({i \in 1..Len(a) : \E j \in i..Len(a) : a[j] # 0}))
        : a \in {a0} } : TRUE

\* carries propagated through the column sums cols from position i on
RECURSIVE BigCarry(_, _, _, _)
BigCarry(cols0, i0, carry0, out0) ==
    CHOOSE v \in
      { IF i > Len(cols) THEN out \o BigOf(carry)
        ELSE BigCarry(cols, i + 1, (cols[i] + carry) \div Limb,
                      Append(out, (cols[i] + carry) % Limb))
        : cols \in {cols0}, i \in {i0}, carry \in {carry0}, out \in {out0} } : TRUE

\* a times the natural m < 2^31 (at most three limbs)
BigMulInt(a0, m0) ==
    CHOOSE v \in
      { BigStrip(BigCarry(<<>> \o [k \in 1..(Len(a) + 2) |->
                                     BigDigit(a, k) * (m % Limb)
                                       + BigDigit(a, k - 1) * ((m \div Limb) % Limb)
                                       + BigDigit(a, k - 2) * (m \div (Limb * Limb))],
                          1, 0, <<>>))
        : a \in {a0}, m \in {m0} } : TRUE

RECURSIVE BigProdFrom(_, _, _)
BigProdFrom(xs0, i0, acc0) ==
    CHOOSE v \in
      { IF i > Len(xs) THEN acc ELSE BigProdFrom(xs, i + 1, BigMulInt(acc, xs[i]))
        : xs \in {xs0}, i \in {i0}, acc \in {acc0} } : TRUE

BigProd(xs) == BigProdFrom(xs, 1, <<1>>)

BigCmp(a0, b0) ==
    CHOOSE v \in
      { IF Len(a) < Len(b) THEN -1
        ELSE IF Len(a) > Len(b) THEN 1
        ELSE IF a = b THEN 0
        ELSE LET top == CHOOSE i \in 1..Len(a) :
                            a[i] # b[i] /\ \A j \in (i + 1)..Len(a) : a[j] = b[j]
             IN  IF a[top] < b[top] THEN -1 ELSE 1
        : a \in {a0}, b \in {b0} } : TRUE

\* -1, 0 or 1 as the product of the naturals xs is below, equal to or above
\* the product of the naturals ys.
ProdCmp(xs, ys) == BigCmp(BigProd(xs), BigProd(ys))

Abs(x) == IF x < 0 THEN -x ELSE x
Sgn(x) == IF x < 0 THEN -1 ELSE IF x > 0 THEN 1 ELSE 0

-----------------------------------------------------------------------------
(* Exact rationals [n |-> numerator, d |-> denominator > 0], lowest terms. *)

RECURSIVE GCD(_, _)
GCD(a, b) == IF b = 0 THEN a ELSE GCD(b, a % b)

Rat(n, d) ==
    LET g == GCD(Abs(n), Abs(d))
    IN  [n |-> (IF d < 0 THEN -n ELSE n) \div g, d |-> Abs(d) \div g]

RInt(k) == [n |-> k, d |-> 1]
RNeg(a) == [n |-> -a.n, d |-> a.d]
RAdd(a, b) ==
    LET g   == GCD(a.d, b.d)
        num == a.n * (b.d \div g) + b.n * (a.d \div g)
        den == (a.d \div g) * b.d
        h   == GCD(Abs(num), den)
    IN  [n |-> num \div h, d |-> den \div h]
RSub(a, b) == RAdd(a, [n |-> -b.n, d |-> b.d])
RMul(a, b) ==
    LET g1  == GCD(Abs(a.n), b.d)
        g2  == GCD(Abs(b.n), a.d)
        num == (a.n \div g1) * (b.n \div g2)
        den == (a.d \div g2) * (b.d \div g1)
    IN  [n |-> num, d |-> den]
RDiv(a, b) == RMul(a, [n |-> IF b.n < 0 THEN -b.d ELSE b.d, d |-> Abs(b.n)])
RLt(a, b) == a.n * b.d < b.n * a.d
RLe(a, b) == a.n * b.d <= b.n * a.d
RGt(a, b) == a.n * b.d > b.n * a.d
RGe(a, b) == a.n * b.d >= b.n * a.d
RMin(a, b) == IF RLe(a, b) THEN a ELSE b
RMax(a, b) == IF RGe(a, b) THEN a ELSE b
RAbs(a) == [n |-> Abs(a.n), d |-> a.d]
\* floor of a rational (Python's // on the exact value)
RFloor(a) == a.n \div a.d

-----------------------------------------------------------------------------
(* Values q + c*sqrt(w): q, c rationals, w a natural.  numpy's std of a    *)
(* series is sqrt(w)/n with w = n*sum(x^2) - sum(x)^2.                     *)

Surd(q, c, w) == [q |-> q, c |-> c, w |-> w]
SurdOfRat(q) == Surd(q, RInt(0), 0)
SurdScale(t, r) == Surd(RMul(t.q, r), RMul(t.c, r), t.w)
SurdAddRat(t, r) == Surd(RAdd(t.q, r), t.c, t.w)
SurdNeg(t) == Surd(RNeg(t.q), RNeg(t.c), t.w)

\* sign of t - k for a rational k
SurdCmp(t, k) ==
    LET d  == RSub(t.q, k)
        sd == Sgn(d.n)
        sc == IF t.w = 0 THEN 0 ELSE Sgn(t.c.n)
    IN  IF sc = 0 THEN sd
        ELSE IF sd = 0 \/ sd = sc THEN sc
        ELSE sc * ProdCmp(<<Abs(t.c.n), Abs(t.c.n), t.w, d.d, d.d>>,
                          <<Abs(d.n), Abs(d.n), t.c.d, t.c.d>>)

RECURSIVE SurdFloorDown(_, _)
SurdFloorDown(t, k) == IF SurdCmp(t, RInt(k)) >= 0 THEN k ELSE SurdFloorDown(t, k - 1)
RECURSIVE SurdFloorUp(_, _)
SurdFloorUp(t, k) == IF SurdCmp(t, RInt(k + 1)) < 0 THEN k ELSE SurdFloorUp(t, k + 1)

SurdFloor(t) ==
    IF SurdCmp(t, RInt(RFloor(t.q))) >= 0 THEN SurdFloorUp(t, RFloor(t.q))
    ELSE SurdFloorDown(t, RFloor(t.q) - 1)

\* Python's int(): truncation toward zero
SurdTrunc(t) == IF SurdCmp(t, RInt(0)) >= 0 THEN SurdFloor(t) ELSE -SurdFloor(SurdNeg(t))
RTrunc(a) == IF a.n >= 0 THEN a.n \div a.d ELSE -((-a.n) \div a.d)

-----------------------------------------------------------------------------
(* Series statistics (numpy / scipy primitives the analyzers call).        *)

RECURSIVE Sum(_)
Sum(xs) == IF xs = <<>> THEN 0 ELSE Head(xs) + Sum(Tail(xs))

RECURSIVE SumSq(_)
SumSq(xs) == IF xs = <<>> THEN 0 ELSE Head(xs) * Head(xs) + SumSq(Tail(xs))

Max2(a, b) == IF a >= b THEN a ELSE b
Min2(a, b) == IF a <= b THEN a ELSE b

RECURSIVE SeqMax(_)
SeqMax(xs) == IF Len(xs) = 1 THEN xs[1] ELSE Max2(Head(xs), SeqMax(Tail(xs)))

\* values[-k:] and values[:k]
LastK(xs, k) == SubSeq(xs, Max2(1, Len(xs) - k + 1), Len(xs))
FirstK(xs, k) == SubSeq(xs, 1, Min2(k, Len(xs)))

\* np.mean of an integer series
Mean(xs) == Rat(Sum(xs), Len(xs))
\* n^2 * np.var(values): the population variance is VarNum / n^2
VarNum(xs) == Len(xs) * SumSq(xs) - Sum(xs) * Sum(xs)

\* Twice np.gradient(xs) with unit spacing (defined for Len(xs) >= 2): numpy
\* takes one-sided differences at the two ends and central differences, halved,
\* inside.  Doubling keeps the entries integral; np.gradient(np.gradient(xs))
\* is Grad2(Grad2(xs)) / 4.
Grad2(xs) ==
    [i \in 1..Len(xs) |->
        IF i = 1 THEN 2 * (xs[2] - xs[1])
        ELSE IF i = Len(xs) THEN 2 * (xs[i] - xs[i - 1])
        ELSE xs[i + 1] - xs[i - 1]]

\* slope of scipy.stats.linregress(np.arange(n), values)
RECURSIVE SumIdx(_, _)
SumIdx(xs, i) == IF i > Len(xs) THEN 0 ELSE (i - 1) * xs[i] + SumIdx(xs, i + 1)

Slope(xs) ==
    LET n   == Len(xs)
        si  == (n * (n - 1)) \div 2
        sii == ((n - 1) * n * (2 * n - 1)) \div 6
    IN  Rat(n * SumIdx(xs, 1) - si * Sum(xs), n * sii - si * si)

-----------------------------------------------------------------------------
(* binary64 arithmetic on the multi-limb naturals.  numpy computes the     *)
(* z-scores of detect_anomalies (lines 795-799) in IEEE 754 double         *)
(* precision, every operation rounded to the nearest double, ties to the   *)
(* even mantissa.  A double is [neg, m, e]: the value is m * 2^e, negated  *)
(* when neg; m is a multi-limb natural of at most 54 bits.                 *)

BigAdd(a0, b0) ==
    CHOOSE v \in
      { BigStrip(BigCarry(<<>> \o [k \in 1..Max2(Len(a), Len(b)) |->
                                     BigDigit(a, k) + BigDigit(b, k)],
                          1, 0, <<>>))
        : a \in {a0}, b \in {b0} } : TRUE

\* a - b for a >= b
RECURSIVE BigSubFrom(_, _, _, _)
BigSubFrom(a0, b0, i0, borrow0) ==
    CHOOSE v \in
      { IF i > Len(a) THEN <<>>
        ELSE LET t == a[i] - BigDigit(b, i) - borrow
             IN  <<IF t < 0 THEN t + Limb ELSE t>>
                   \o BigSubFrom(a, b, i + 1, IF t < 0 THEN 1 ELSE 0)
        : a \in {a0}, b \in {b0}, i \in {i0}, borrow \in {borrow0} } : TRUE

BigSub(a, b) == BigStrip(BigSubFrom(a, b, 1, 0))

BigMul(a0, b0) ==
    CHOOSE v \in
      { IF a = <<>> \/ b = <<>> THEN <<>>
        ELSE BigStrip(BigCarry(<<>> \o [k \in 1..(Len(a) + Len(b)) |->
                                   Sum([i \in 1..Len(a) |-> a[i] * BigDigit(b, k - i + 1)])],
                               1, 0, <<>>))
        : a \in {a0}, b \in {b0} } : TRUE

\* quotient and remainder of a by the natural m, 0 < m < 2^17
RECURSIVE BigDivInt(_, _)
BigDivInt(a0, m0) ==
    CHOOSE v \in
      { IF a = <<>> THEN [q |-> <<>>, r |-> 0]
        ELSE CHOOSE w \in
               { LET t == hi.r * Limb + Head(a)
                 IN  [q |-> BigStrip(<<t \div m>> \o hi.q), r |-> t % m]
                 : hi \in {BigDivInt(Tail(a), m)} } : TRUE
        : a \in {a0}, m \in {m0} } : TRUE

\* a * 2^k and floor(a / 2^k)
BigShl(a0, k0) ==
    CHOOSE v \in
      { IF a = <<>> THEN <<>>
        ELSE [i \in 1..(k \div 13) |-> 0] \o BigMulInt(a, 2^(k % 13))
        : a \in {a0}, k \in {k0} } : TRUE

BigShr(a0, k0) ==
    CHOOSE v \in
      { IF Len(a) <= k \div 13 THEN <<>>
        ELSE BigDivInt(SubSeq(a, (k \div 13) + 1, Len(a)), 2^(k % 13)).q
        : a \in {a0}, k \in {k0} } : TRUE

\* number of bits of a
BitLen(a0) ==
    CHOOSE v \in
      { IF a = <<>> THEN 0
        ELSE 13 * (Len(a) - 1)
               + (CHOOSE b \in 1..13 : 2^(b - 1) <= a[Len(a)] /\ a[Len(a)] < 2^b)
        : a \in {a0} } : TRUE

\* floor of the square root of x: r holds the bits above position hi, and the
\* bits from hi down to lo are decided one by one, the upper half of them first
RECURSIVE BigSqrtBits(_, _, _, _)
BigSqrtBits(x0, r0, hi0, lo0) ==
    CHOOSE v \in
      { IF hi = lo
          THEN CHOOSE w \in
                 { IF BigCmp(BigMul(c, c), x) <= 0 THEN c ELSE r
                   : c \in {BigAdd(r, BigShl(<<1>>, hi))} } : TRUE
        ELSE BigSqrtBits(x, BigSqrtBits(x, r, hi, ((hi + lo) \div 2) + 1),
                         (hi + lo) \div 2, lo)
        : x \in {x0}, r \in {r0}, hi \in {hi0}, lo \in {lo0} } : TRUE

BigSqrt(x) == BigSqrtBits(x, <<>>, BitLen(x) \div 2, 0)

\* The double nearest to (m + f) * 2^e, where 0 <= f < 1 and sticky tells
\* whether f > 0; a value with sticky set has at least 55 bits.
F64Round(neg, m0, e, sticky) ==
    CHOOSE v \in
      { LET s == BitLen(m) - 53
        IN  IF s <= 0 THEN [neg |-> neg, m |-> m, e |-> e]
            ELSE CHOOSE w \in
                   { LET up == rest > 0 \/ (rest = 0 /\ (sticky \/ q[1] % 2 = 1))
                     IN  [neg |-> neg, m |-> IF up THEN BigAdd(q, <<1>>) ELSE q,
                          e |-> e + s]
                     : q \in {BigShr(m, s)},
                       rest \in {BigCmp(BigSub(m, BigShl(BigShr(m, s), s)),
                                        BigShl(<<1>>, s - 1))} } : TRUE
        : m \in {m0} } : TRUE

F64OfInt(k) == [neg |-> k < 0, m |-> BigOf(Abs(k)), e |-> 0]

F64Add(a0, b0) ==
    CHOOSE v \in
      { LET e  == Min2(a.e, b.e)
            am == BigShl(a.m, a.e - e)
            bm == BigShl(b.m, b.e - e)
        IN  IF a.neg = b.neg THEN F64Round(a.neg, BigAdd(am, bm), e, FALSE)
            ELSE IF BigCmp(am, bm) >= 0 THEN F64Round(a.neg, BigSub(am, bm), e, FALSE)
            ELSE F64Round(b.neg, BigSub(bm, am), e, FALSE)
        : a \in {a0}, b \in {b0} } : TRUE

F64Sub(a, b0) ==
    CHOOSE v \in { F64Add(a, [neg |-> ~b.neg, m |-> b.m, e |-> b.e]) : b \in {b0} } : TRUE

F64Mul(a0, b0) ==
    CHOOSE v \in
      { F64Round(a.neg # b.neg, BigMul(a.m, b.m), a.e + b.e, FALSE)
        : a \in {a0}, b \in {b0} } : TRUE

\* a / n for a natural n, 0 < n < 2^7: the quotient is taken to 65 more bits
\* than a's mantissa, the remainder tells whether it is exact
F64DivInt(a0, n) ==
    CHOOSE v \in
      { CHOOSE w \in
          { F64Round(a.neg, d.q, a.e - 65, d.r # 0)
            : d \in {BigDivInt(BigShl(a.m, 65), n)} } : TRUE
        : a \in {a0} } : TRUE

\* np.sqrt of a double a > 0: the root of the mantissa scaled to 130 bits by
\* a power of 2 that leaves an even exponent
F64Sqrt(a0) ==
    CHOOSE v \in
      { LET k == 130 - BitLen(a.m) + ((a.e + BitLen(a.m)) % 2)
        IN  CHOOSE w \in
              { F64Round(FALSE, r, (a.e - k) \div 2,
                         BigCmp(BigMul(r, r), BigShl(a.m, k)) # 0)
                : r \in {BigSqrt(BigShl(a.m, k))} } : TRUE
        : a \in {a0} } : TRUE

\* whether the double |a| / b exceeds k, for b > 0 and k in {2, 3}.  Between 2
\* and 4 the doubles are 2^-51 apart and k has an even mantissa, so the
\* quotient rounds above k iff it exceeds k + 2^-52.
F64QuotientAbove(a0, b0, k) ==
    \E a \in {a0}, b \in {b0} :
        LET e   == Min2(a.e + 52, b.e)
            lhs == BigShl(a.m, a.e + 52 - e)
            rhs == BigShl(BigMul(b.m, BigAdd(BigShl(BigOf(k), 52), <<1>>)), b.e - e)
        IN  BigCmp(lhs, rhs) > 0

\* numpy's add.reduce over the doubles xs (pairwise summation): fewer than 8
\* are added in order; otherwise 8 running sums take every 8th element, are
\* added in pairs, and the elements left over are added in order.
RECURSIVE F64SumInOrder(_, _, _)
F64SumInOrder(xs0, i0, acc0) ==
    CHOOSE v \in
      { IF i > Len(xs) THEN acc ELSE F64SumInOrder(xs, i + 1, F64Add(acc, xs[i]))
        : xs \in {xs0}, i \in {i0}, acc \in {acc0} } : TRUE

RECURSIVE F64Strided(_, _, _)
F64Strided(xs0, j0, blocks0) ==
    CHOOSE v \in
      { IF blocks = 1 THEN xs[j]
        ELSE F64Add(F64Strided(xs, j, blocks - 1), xs[8 * (blocks - 1) + j])
        : xs \in {xs0}, j \in {j0}, blocks \in {blocks0} } : TRUE

F64Sum(xs0) ==
    CHOOSE v \in
      { IF Len(xs) < 8 THEN F64SumInOrder(xs, 1, F64OfInt(0))
        ELSE CHOOSE w \in
               { F64SumInOrder(xs, 8 * (Len(xs) \div 8) + 1,
                     F64Add(F64Add(F64Add(r[1], r[2]), F64Add(r[3], r[4])),
                            F64Add(F64Add(r[5], r[6]), F64Add(r[7], r[8]))))
                 : r \in {<<>> \o [j \in 1..8 |-> F64Strided(xs, j, Len(xs) \div 8)]} } : TRUE
        : xs \in {xs0} } : TRUE

\* whether z_scores[i - 1] of lines 795-799 exceeds k (2 or 3): the mean and
\* the standard deviation as np.mean and np.std compute them, then the
\* rounded quotient.
ZScoreAbove(values, i, k) ==
    \E xs \in {values} :
    \E mean \in {F64DivInt(F64OfInt(Sum(xs)), Len(xs))} :
    \E devs \in {<<>> \o [j \in 1..Len(xs) |-> F64Sub(F64OfInt(xs[j]), mean)]} :
    \E sqs \in {<<>> \o [j \in 1..Len(xs) |-> F64Mul(devs[j], devs[j])]} :
    \E std \in {F64Sqrt(F64DivInt(F64Sum(sqs), Len(xs)))} :
        F64QuotientAbove(devs[i], std, k)

-----------------------------------------------------------------------------
(* The per-series analyzers of TrendAnalyzer.                              *)

\* calculate_trend_velocity with the test of line 586 accepting 5 itself
calculate_trend_velocity_five_rapid(time_series_data) ==
    IF Len(time_series_data) < 2 THEN [score |-> RInt(0), direction |-> "stable"]
    ELSE
    LET velocity2       == Grad2(time_series_data)
        avg_velocity    == Rat(Sum(velocity2), 2 * Len(velocity2))
        recent_velocity == IF Len(velocity2) >= 3
                             THEN Rat(Sum(LastK(velocity2, 3)), 2 * 3)
                           ELSE avg_velocity
        mag             == RAbs(recent_velocity)
    IN  IF RGe(recent_velocity, RInt(5))
          THEN [score |-> RMin(RInt(100), RAdd(RInt(50), RMul(mag, RInt(2)))),
                direction |-> "rapidly_rising"]
        ELSE IF RGt(recent_velocity, RInt(1))
          THEN [score |-> RAdd(RInt(60), RMul(mag, RInt(3))), direction |-> "rising"]
        ELSE IF RLt(recent_velocity, RInt(-5))
          THEN [score |-> RMax(RInt(0), RSub(RInt(50), RMul(mag, RInt(2)))),
                direction |-> "rapidly_falling"]
        ELSE IF RLt(recent_velocity, RInt(-1))
          THEN [score |-> RSub(RInt(40), RMul(mag, RInt(3))), direction |-> "falling"]
        ELSE [score |-> RInt(50), direction |-> "stable"]

calculate_trend_velocity(time_series_data) ==
    IF Len(time_series_data) < 2 THEN [score |-> RInt(0), direction |-> "stable"]
    ELSE
    LET velocity2       == Grad2(time_series_data)
        avg_velocity    == Rat(Sum(velocity2), 2 * Len(velocity2))
        recent_velocity == IF Len(velocity2) >= 3
                             THEN Rat(Sum(LastK(velocity2, 3)), 2 * 3)
                           ELSE avg_velocity
        mag             == RAbs(recent_velocity)
    IN  IF RGt(recent_velocity, RInt(5))
          THEN [score |-> RMin(RInt(100), RAdd(RInt(50), RMul(mag, RInt(2)))),
                direction |-> "rapidly_rising"]
        ELSE IF RGt(recent_velocity, RInt(1))
          THEN [score |-> RAdd(RInt(60), RMul(mag, RInt(3))), direction |-> "rising"]
        ELSE IF RLt(recent_velocity, RInt(-5))
          THEN [score |-> RMax(RInt(0), RSub(RInt(50), RMul(mag, RInt(2)))),
                direction |-> "rapidly_falling"]
        ELSE IF RLt(recent_velocity, RInt(-1))
          THEN [score |-> RSub(RInt(40), RMul(mag, RInt(3))), direction |-> "falling"]
        ELSE [score |-> RInt(50), direction |-> "stable"]

\* calculate_trend_acceleration with line 624 averaging the whole of
\* acceleration instead of its last three values
calculate_trend_acceleration_mean_of_all(time_series_data) ==
    IF Len(time_series_data) < 3 THEN [score |-> 0, state |-> "steady"]
    ELSE
    LET acceleration4 == Grad2(Grad2(time_series_data))
        recent_accel  == Rat(Sum(acceleration4), 4 * Len(acceleration4))
    IN  IF RGt(recent_accel, RInt(2)) THEN [score |-> 80, state |-> "accelerating"]
        ELSE IF RGt(recent_accel, Rat(1, 2))
          THEN [score |-> 65, state |-> "slowly_accelerating"]
        ELSE IF RLt(recent_accel, RInt(-2)) THEN [score |-> 30, state |-> "decelerating"]
        ELSE IF RLt(recent_accel, Rat(-1, 2))
          THEN [score |-> 45, state |-> "slowly_decelerating"]
        ELSE [score |-> 50, state |-> "steady"]

\* calculate_trend_acceleration with the guard of line 613 testing < 2
calculate_trend_acceleration_guard_two(time_series_data) ==
    IF Len(time_series_data) < 2 THEN [score |-> 0, state |-> "steady"]
    ELSE
    LET acceleration4 == Grad2(Grad2(time_series_data))
        recent_accel  == IF Len(acceleration4) >= 3
                           THEN Rat(Sum(LastK(acceleration4, 3)), 4 * 3)
                         ELSE Rat(Sum(acceleration4), 4 * Len(acceleration4))
    IN  IF RGt(recent_accel, RInt(2)) THEN [score |-> 80, state |-> "accelerating"]
        ELSE IF RGt(recent_accel, Rat(1, 2))
          THEN [score |-> 65, state |-> "slowly_accelerating"]
        ELSE IF RLt(recent_accel, RInt(-2)) THEN [score |-> 30, state |-> "decelerating"]
        ELSE IF RLt(recent_accel, Rat(-1, 2))
          THEN [score |-> 45, state |-> "slowly_decelerating"]
        ELSE [score |-> 50, state |-> "steady"]

calculate_trend_acceleration(time_series_data) ==
    IF Len(time_series_data) < 3 THEN [score |-> 0, state |-> "steady"]
    ELSE
    LET acceleration4 == Grad2(Grad2(time_series_data))
        recent_accel  == IF Len(acceleration4) >= 3
                           THEN Rat(Sum(LastK(acceleration4, 3)), 4 * 3)
                         ELSE Rat(Sum(acceleration4), 4 * Len(acceleration4))
    IN  IF RGt(recent_accel, RInt(2)) THEN [score |-> 80, state |-> "accelerating"]
        ELSE IF RGt(recent_accel, Rat(1, 2))
          THEN [score |-> 65, state |-> "slowly_accelerating"]
        ELSE IF RLt(recent_accel, RInt(-2)) THEN [score |-> 30, state |-> "decelerating"]
        ELSE IF RLt(recent_accel, Rat(-1, 2))
          THEN [score |-> 45, state |-> "slowly_decelerating"]
        ELSE [score |-> 50, state |-> "steady"]

\* detect_trend_lifecycle with the two growing tests moved ahead of the
\* emerging test
detect_trend_lifecycle_growing_first(time_series_data, keyword) ==
    IF Len(time_series_data) < 5
      THEN [lifecycle |-> "insufficient_data", score |-> 50,
            description |-> "Not enough data for lifecycle analysis"]
    ELSE
    LET values     == time_series_data
        mean_value == Mean(values)
        max_value  == RInt(SeqMax(values))
        recent_avg == Mean(LastK(values, 3))
        early_avg  == Mean(FirstK(values, 3))
        slope      == Slope(values)
    IN  IF RGt(slope, RInt(2)) /\ RGt(recent_avg, RMul(early_avg, Rat(3, 2)))
          THEN [lifecycle |-> "growing", score |-> 85,
                description |-> "Rapidly growing trend - Excellent timing!"]
        ELSE IF RGt(slope, Rat(1, 2)) /\ RGt(recent_avg, RMul(mean_value, Rat(9, 10)))
          THEN [lifecycle |-> "growing", score |-> 70,
                description |-> "Growing trend - Good opportunity"]
        ELSE IF RLt(mean_value, RInt(20)) /\ RGt(slope, RInt(1))
          THEN [lifecycle |-> "emerging", score |-> 75,
                description |-> "Emerging trend - Great opportunity!"]
        ELSE IF RLt(RAbs(slope), Rat(1, 2)) /\ RGt(mean_value, RInt(70))
          THEN [lifecycle |-> "mature", score |-> 60,
                description |-> "Mature trend with stable high interest - Safe choice"]
        ELSE IF RGe(recent_avg, RMul(max_value, Rat(95, 100))) /\ RLt(slope, RInt(1))
          THEN [lifecycle |-> "peak", score |-> 55,
                description |-> "Trend at peak - Consider timing carefully"]
        ELSE IF RLt(slope, RInt(-1)) /\ RLt(recent_avg, mean_value)
          THEN [lifecycle |-> "declining", score |-> 30,
                description |-> "Declining trend - Consider alternatives"]
        ELSE IF RLt(slope, RInt(0))
          THEN [lifecycle |-> "declining", score |-> 40,
                description |-> "Trend losing momentum - May still have value"]
        ELSE [lifecycle |-> "stable", score |-> 50,
              description |-> "Stable trend - Moderate opportunity"]

detect_trend_lifecycle(time_series_data, keyword) ==
    IF Len(time_series_data) < 5
      THEN [lifecycle |-> "insufficient_data", score |-> 50,
            description |-> "Not enough data for lifecycle analysis"]
    ELSE
    LET values     == time_series_data
        mean_value == Mean(values)
        max_value  == RInt(SeqMax(values))
        recent_avg == Mean(LastK(values, 3))
        early_avg  == Mean(FirstK(values, 3))
        slope      == Slope(values)
    IN  IF RLt(mean_value, RInt(20)) /\ RGt(slope, RInt(1))
          THEN [lifecycle |-> "emerging", score |-> 75,
                description |-> "Emerging trend - Great opportunity!"]
        ELSE IF RGt(slope, RInt(2)) /\ RGt(recent_avg, RMul(early_avg, Rat(3, 2)))
          THEN [lifecycle |-> "growing", score |-> 85,
                description |-> "Rapidly growing trend - Excellent timing!"]
        ELSE IF RGt(slope, Rat(1, 2)) /\ RGt(recent_avg, RMul(mean_value, Rat(9, 10)))
          THEN [lifecycle |-> "growing", score |-> 70,
                description |-> "Growing trend - Good opportunity"]
        ELSE IF RLt(RAbs(slope), Rat(1, 2)) /\ RGt(mean_value, RInt(70))
          THEN [lifecycle |-> "mature", score |-> 60,
                description |-> "Mature trend with stable high interest - Safe choice"]
        ELSE IF RGe(recent_avg, RMul(max_value, Rat(95, 100))) /\ RLt(slope, RInt(1))
          THEN [lifecycle |-> "peak", score |-> 55,
                description |-> "Trend at peak - Consider timing carefully"]
        ELSE IF RLt(slope, RInt(-1)) /\ RLt(recent_avg, mean_value)
          THEN [lifecycle |-> "declining", score |-> 30,
                description |-> "Declining trend - Consider alternatives"]
        ELSE IF RLt(slope, RInt(0))
          THEN [lifecycle |-> "declining", score |-> 40,
                description |-> "Trend losing momentum - May still have value"]
        ELSE [lifecycle |-> "stable", score |-> 50,
              description |-> "Stable trend - Moderate opportunity"]

\* the loop at lines 746-748 with the weights alpha and 1 - alpha exchanged
RECURSIVE SmoothFrom_weights_exchanged(_, _, _)
SmoothFrom_weights_exchanged(values, i, prev) ==
    IF i > Len(values) THEN prev
    ELSE LET num == 7 * values[i] * prev.d + 3 * prev.n
             den == 10 * prev.d
             g   == GCD(Abs(num), den)
             nxt == [n |-> num \div g, d |-> den \div g]
         IN  IF nxt.d > 0 THEN SmoothFrom_weights_exchanged(values, i + 1, nxt) ELSE nxt

\* The loop at lines 746-748 from index i on, prev being smoothed[-1] so far:
\* smoothed.append(alpha * values[i] + (1 - alpha) * smoothed[-1]), alpha = 0.3.
RECURSIVE SmoothFrom(_, _, _)
SmoothFrom(values, i, prev) ==
    IF i > Len(values) THEN prev
    ELSE LET num == 3 * values[i] * prev.d + 7 * prev.n
             den == 10 * prev.d
             g   == GCD(Abs(num), den)
             nxt == [n |-> num \div g, d |-> den \div g]
         IN  IF nxt.d > 0 THEN SmoothFrom(values, i + 1, nxt) ELSE nxt

\* smoothed[-1] after the loop
Smoothed(values) == SmoothFrom(values, 2, RInt(values[1]))

\* forecast_trend with the difference of line 752 taken the other way round,
\* values[0] - values[-1]
forecast_trend_trend_reversed(time_series_data, periods_ahead) ==
    IF Len(time_series_data) < 4 THEN [forecasts |-> <<>>, confidence |-> 0]
    ELSE
    LET values     == time_series_data
        n          == Len(values)
        trend      == IF n >= 2 THEN Rat(values[1] - values[n], n) ELSE RInt(0)
        last_value == SmoothFrom(values, 2, RInt(values[1]))
        variance   == Rat(VarNum(values), n * n)
    IN  [forecasts |->
            [i \in 1..periods_ahead |->
                RMax(RInt(0), RMin(RInt(100), RAdd(last_value, RMul(trend, RInt(i)))))],
         confidence |-> IF RLt(variance, RInt(100)) THEN 80
                        ELSE IF RLt(variance, RInt(300)) THEN 60 ELSE 40]

forecast_trend(time_series_data, periods_ahead) ==
    IF Len(time_series_data) < 4 THEN [forecasts |-> <<>>, confidence |-> 0]
    ELSE
    LET values     == time_series_data
        n          == Len(values)
        trend      == IF n >= 2 THEN Rat(values[n] - values[1], n) ELSE RInt(0)
        last_value == Smoothed(values)
        variance   == Rat(VarNum(values), n * n)
    IN  [forecasts |->
            [i \in 1..periods_ahead |->
                RMax(RInt(0), RMin(RInt(100), RAdd(last_value, RMul(trend, RInt(i)))))],
         confidence |-> IF RLt(variance, RInt(100)) THEN 80
                        ELSE IF RLt(variance, RInt(300)) THEN 60 ELSE 40]

\* z > k with the square of the bound left out
ZExceeds_unsquared(values, i, z2, k) ==
    RGt(z2, RInt(k)) \/ (z2 = RInt(k * k) /\ ZScoreAbove(values, i, k))

\* z > k at lines 804 (k = 2) and 811 (k = 3) for z = z_scores[i - 1], whose
\* exact square is z2.  For the series of up to 20 interest values a z2 other
\* than k^2 is at least 10^-6 away from it, far more than the doubles are
\* off, and the comparison comes out as on the exact values; a z2 of exactly
\* k^2 leaves it to the rounding of the doubles.
ZExceeds(values, i, z2, k) ==
    RGt(z2, RInt(k * k)) \/ (z2 = RInt(k * k) /\ ZScoreAbove(values, i, k))

\* the loop at lines 803-812 with the test of line 804 accepting z = 2 itself
RECURSIVE AnomalyScan_from_two(_, _)
AnomalyScan_from_two(values, i) ==
    IF i > Len(values) THEN <<>>
    ELSE
    LET n   == Len(values)
        dev == n * values[i] - Sum(values)
        w   == VarNum(values)
        z2  == IF w = 0 THEN RInt(0) ELSE Rat(dev * dev, w)
    IN  (IF w # 0 /\ RGe(z2, RInt(4))
           THEN << [index |-> i - 1, value |-> values[i], z_score_sq |-> z2,
                    type |-> IF RGt(RInt(values[i]), Mean(values)) THEN "spike" ELSE "drop",
                    magnitude |-> IF ZExceeds(values, i, z2, 3)
                                    THEN "extreme" ELSE "significant"] >>
           ELSE <<>>)
        \o AnomalyScan_from_two(values, i + 1)

\* The entries the loop at lines 803-812 appends, in index order.  z_score_sq is
\* the square of the z-score, (n*x - sum)^2 / VarNum; with a zero std numpy
\* yields nan, which no comparison accepts.
RECURSIVE AnomalyScan(_, _)
AnomalyScan(values, i) ==
    IF i > Len(values) THEN <<>>
    ELSE
    LET n   == Len(values)
        dev == n * values[i] - Sum(values)
        w   == VarNum(values)
        z2  == IF w = 0 THEN RInt(0) ELSE Rat(dev * dev, w)
    IN  (IF w # 0 /\ ZExceeds(values, i, z2, 2)
           THEN << [index |-> i - 1, value |-> values[i], z_score_sq |-> z2,
                    type |-> IF RGt(RInt(values[i]), Mean(values)) THEN "spike" ELSE "drop",
                    magnitude |-> IF ZExceeds(values, i, z2, 3)
                                    THEN "extreme" ELSE "significant"] >>
           ELSE <<>>)
        \o AnomalyScan(values, i + 1)

\* detect_anomalies reading the series that was handed to the call before it
detect_anomalies_on_last_series(time_series_data) ==
    LET values == IF series = <<>> THEN time_series_data ELSE series
    IN  IF Len(values) < 5 THEN [anomalies |-> <<>>, zero_div |-> FALSE]
        ELSE IF VarNum(values) = 0 THEN [anomalies |-> <<>>, zero_div |-> FALSE]
        ELSE [anomalies |-> AnomalyScan(values, 1), zero_div |-> VarNum(values) = 0]

\* zero_div records whether the division at line 799 ran with a zero divisor.
detect_anomalies(time_series_data) ==
    IF Len(time_series_data) < 5 THEN [anomalies |-> <<>>, zero_div |-> FALSE]
    ELSE IF VarNum(time_series_data) = 0 THEN [anomalies |-> <<>>, zero_div |-> FALSE]
    ELSE [anomalies |-> AnomalyScan(time_series_data, 1),
          zero_div  |-> VarNum(time_series_data) = 0]

\* period=7, the default of analyze_seasonality (line 820), which line 184 uses
Period == 7

\* n^2 times the sum the loop at lines 843-844 accumulates
RECURSIVE AutocorrNum(_, _, _)
AutocorrNum(values, period, i) ==
    IF i > Len(values) - period THEN 0
    ELSE (Len(values) * values[i] - Sum(values))
           * (Len(values) * values[i + period] - Sum(values))
         + AutocorrNum(values, period, i + 1)

\* 0.0 / 0.0 in numpy
NaN == [n |-> 0, d |-> 0]

\* analyze_seasonality without the var == 0 test of line 836: on a constant
\* series line 846 divides 0.0 by 0.0, numpy yields nan and no comparison
\* accepts it
analyze_seasonality_unguarded(time_series_data, period) ==
    IF Len(time_series_data) < period * 2
      THEN [has_seasonality |-> FALSE, score |-> RInt(0), zero_div |-> FALSE,
            description |-> "Insufficient data for seasonality analysis"]
    ELSE IF VarNum(time_series_data) = 0
      THEN [has_seasonality |-> FALSE, score |-> NaN, zero_div |-> TRUE,
            description |-> "No significant seasonal pattern"]
    ELSE
    LET n        == Len(time_series_data) - period
        autocorr == Rat(AutocorrNum(time_series_data, period, 1),
                        n * VarNum(time_series_data))
    IN  [has_seasonality |-> RGt(autocorr, Rat(3, 10)),
         score |-> RMul(autocorr, RInt(100)), zero_div |-> FALSE,
         description |-> IF RGt(autocorr, Rat(1, 2)) THEN "Strong seasonal pattern detected"
                         ELSE IF RGt(autocorr, Rat(3, 10)) THEN "Moderate seasonal pattern"
                         ELSE "No significant seasonal pattern"]

\* analyze_seasonality with the sum of lines 843-846 divided by len(values)
\* instead of n = len(values) - period
analyze_seasonality_over_length(time_series_data, period) ==
    IF Len(time_series_data) < period * 2
      THEN [has_seasonality |-> FALSE, score |-> RInt(0), zero_div |-> FALSE,
            description |-> "Insufficient data for seasonality analysis"]
    ELSE IF VarNum(time_series_data) = 0
      THEN [has_seasonality |-> FALSE, score |-> RInt(0), zero_div |-> FALSE,
            description |-> "No variance in data"]
    ELSE
    LET autocorr == Rat(AutocorrNum(time_series_data, period, 1),
                        Len(time_series_data) * VarNum(time_series_data))
    IN  [has_seasonality |-> RGt(autocorr, Rat(3, 10)),
         score |-> RMul(autocorr, RInt(100)), zero_div |-> FALSE,
         description |-> IF RGt(autocorr, Rat(1, 2)) THEN "Strong seasonal pattern detected"
                         ELSE IF RGt(autocorr, Rat(3, 10)) THEN "Moderate seasonal pattern"
                         ELSE "No significant seasonal pattern"]

\* zero_div records whether line 846 ran with a zero divisor.
analyze_seasonality(time_series_data, period) ==
    IF Len(time_series_data) < period * 2
      THEN [has_seasonality |-> FALSE, score |-> RInt(0), zero_div |-> FALSE,
            description |-> "Insufficient data for seasonality analysis"]
    ELSE IF Len(time_series_data) > period
      THEN IF VarNum(time_series_data) = 0
             THEN [has_seasonality |-> FALSE, score |-> RInt(0), zero_div |-> FALSE,
                   description |-> "No variance in data"]
           ELSE
           LET n        == Len(time_series_data) - period
               autocorr == Rat(AutocorrNum(time_series_data, period, 1),
                               n * VarNum(time_series_data))
           IN  IF RGt(autocorr, Rat(1, 2))
                 THEN [has_seasonality |-> TRUE, score |-> RMul(autocorr, RInt(100)),
                       zero_div |-> FALSE,
                       description |-> "Strong seasonal pattern detected"]
               ELSE IF RGt(autocorr, Rat(3, 10))
                 THEN [has_seasonality |-> TRUE, score |-> RMul(autocorr, RInt(100)),
                       zero_div |-> FALSE,
                       description |-> "Moderate seasonal pattern"]
               ELSE [has_seasonality |-> FALSE, score |-> RMul(autocorr, RInt(100)),
                     zero_div |-> FALSE,
                     description |-> "No significant seasonal pattern"]
    ELSE [has_seasonality |-> FALSE, score |-> RInt(0), zero_div |-> FALSE,
          description |-> "Insufficient data length"]

\* calculate_trend_momentum with the weights of growth_score and
\* consistency_score exchanged (lines 895 and 897)
calculate_trend_momentum_weights_exchanged(time_series_data) ==
    IF Len(time_series_data) < 3
      THEN [momentum |-> SurdOfRat(RInt(50)), description |-> "neutral"]
    ELSE
    LET values      == time_series_data
        n           == Len(values)
        recent_avg  == Mean(LastK(values, 3))
        earlier_avg == Mean(FirstK(values, 3))
        growth      == IF RGt(earlier_avg, RInt(0))
                         THEN RMul(RDiv(RSub(recent_avg, earlier_avg), earlier_avg),
                                   RInt(100))
                       ELSE RInt(0)
        growth_score   == RMin(RInt(100), RAdd(RInt(50), growth))
        velocity_score == calculate_trend_velocity(values).score
        \* volatility = std / (mean + 1) = sqrt(VarNum) / (sum + n);
        \* consistency = max(0, 100 - 20 * volatility)
        w              == VarNum(values)
        clamped        == w > 25 * (Sum(values) + n) * (Sum(values) + n)
        consistency    == IF clamped THEN SurdOfRat(RInt(0))
                          ELSE Surd(RInt(100), Rat(-20, Sum(values) + n), w)
        level_score    == RMin(RInt(100), RInt(values[n]))
        momentum       ==
            SurdAddRat(SurdScale(consistency, Rat(3, 10)),
                       RAdd(RAdd(RMul(growth_score, Rat(2, 10)),
                                 RMul(velocity_score, Rat(3, 10))),
                            RMul(level_score, Rat(2, 10))))
    IN  [momentum |-> momentum,
         description |->
            IF SurdCmp(momentum, RInt(75)) > 0 THEN "strong_upward"
            ELSE IF SurdCmp(momentum, RInt(60)) > 0 THEN "moderate_upward"
            ELSE IF SurdCmp(momentum, RInt(40)) > 0 THEN "neutral"
            ELSE IF SurdCmp(momentum, RInt(25)) > 0 THEN "moderate_downward"
            ELSE "strong_downward"]

calculate_trend_momentum(time_series_data) ==
    IF Len(time_series_data) < 3
      THEN [momentum |-> SurdOfRat(RInt(50)), description |-> "neutral"]
    ELSE
    LET values      == time_series_data
        n           == Len(values)
        recent_avg  == Mean(LastK(values, 3))
        earlier_avg == Mean(FirstK(values, 3))
        growth      == IF RGt(earlier_avg, RInt(0))
                         THEN RMul(RDiv(RSub(recent_avg, earlier_avg), earlier_avg),
                                   RInt(100))
                       ELSE RInt(0)
        growth_score   == RMin(RInt(100), RAdd(RInt(50), growth))
        velocity_score == calculate_trend_velocity(values).score
        \* volatility = std / (mean + 1) = sqrt(VarNum) / (sum + n);
        \* consistency = max(0, 100 - 20 * volatility)
        w              == VarNum(values)
        clamped        == w > 25 * (Sum(values) + n) * (Sum(values) + n)
        consistency    == IF clamped THEN SurdOfRat(RInt(0))
                          ELSE Surd(RInt(100), Rat(-20, Sum(values) + n), w)
        level_score    == RMin(RInt(100), RInt(values[n]))
        momentum       ==
            SurdAddRat(SurdScale(consistency, Rat(2, 10)),
                       RAdd(RAdd(RMul(growth_score, Rat(3, 10)),
                                 RMul(velocity_score, Rat(3, 10))),
                            RMul(level_score, Rat(2, 10))))
    IN  [momentum |-> momentum,
         description |->
            IF SurdCmp(momentum, RInt(75)) > 0 THEN "strong_upward"
            ELSE IF SurdCmp(momentum, RInt(60)) > 0 THEN "moderate_upward"
            ELSE IF SurdCmp(momentum, RInt(40)) > 0 THEN "neutral"
            ELSE IF SurdCmp(momentum, RInt(25)) > 0 THEN "moderate_downward"
            ELSE "strong_downward"]

-----------------------------------------------------------------------------
(* get_trending_topics, lines 155-233: the record built for one keyword    *)
(* whose fetch returned the series time_series.                            *)

\* the sum of lines 187-193 with avg_interest added whole, its weight 0.25
\* left out
comprehensive_weighted_sum_interest_unweighted(time_series) ==
    LET avg_interest    == Mean(time_series)
        velocity_score  == calculate_trend_velocity(time_series).score
        accel_score     == calculate_trend_acceleration(time_series).score
        lifecycle_score == detect_trend_lifecycle(time_series, "").score
        momentum_score  == calculate_trend_momentum(time_series).momentum
    IN  SurdAddRat(SurdScale(momentum_score, Rat(20, 100)),
                   RAdd(RAdd(avg_interest,
                             RMul(velocity_score, Rat(20, 100))),
                        RAdd(RMul(RInt(lifecycle_score), Rat(25, 100)),
                             RMul(RInt(accel_score), Rat(10, 100)))))

\* the sum of lines 187-193 with the weights of avg_interest and
\* velocity_score exchanged
comprehensive_weighted_sum_swapped(time_series) ==
    LET avg_interest    == Mean(time_series)
        velocity_score  == calculate_trend_velocity(time_series).score
        accel_score     == calculate_trend_acceleration(time_series).score
        lifecycle_score == detect_trend_lifecycle(time_series, "").score
        momentum_score  == calculate_trend_momentum(time_series).momentum
    IN  SurdAddRat(SurdScale(momentum_score, Rat(20, 100)),
                   RAdd(RAdd(RMul(avg_interest, Rat(20, 100)),
                             RMul(velocity_score, Rat(25, 100))),
                        RAdd(RMul(RInt(lifecycle_score), Rat(25, 100)),
                             RMul(RInt(accel_score), Rat(10, 100)))))

\* the sum inside int(...) at lines 187-193
comprehensive_weighted_sum(time_series) ==
    LET avg_interest    == Mean(time_series)
        velocity_score  == calculate_trend_velocity(time_series).score
        accel_score     == calculate_trend_acceleration(time_series).score
        lifecycle_score == detect_trend_lifecycle(time_series, "").score
        momentum_score  == calculate_trend_momentum(time_series).momentum
    IN  SurdAddRat(SurdScale(momentum_score, Rat(20, 100)),
                   RAdd(RAdd(RMul(avg_interest, Rat(25, 100)),
                             RMul(velocity_score, Rat(20, 100))),
                        RAdd(RMul(RInt(lifecycle_score), Rat(25, 100)),
                             RMul(RInt(accel_score), Rat(10, 100)))))

\* round(...) in place of int(...) at line 187
comprehensive_score_rounded(time_series) ==
    SurdFloor(SurdAddRat(comprehensive_weighted_sum(time_series), Rat(1, 2)))

comprehensive_score(time_series) == SurdTrunc(comprehensive_weighted_sum(time_series))

trend_status(velocity_direction) ==
    IF velocity_direction = "rapidly_rising" THEN "Rapidly Rising"
    ELSE IF velocity_direction = "rising" THEN "Rising"
    ELSE IF velocity_direction = "rapidly_falling" THEN "Rapidly Falling"
    ELSE IF velocity_direction = "falling" THEN "Declining"
    ELSE "Stable"

\* line 229 without the test of the magnitude
HasExtreme_any_anomaly(anomalies) == \E i \in 1..Len(anomalies) : TRUE

HasExtreme(anomalies) == \E i \in 1..Len(anomalies) : anomalies[i].magnitude = "extreme"

\* the record of lines 196-227, built from the values computed at lines 166-193
topic_record(keyword, time_series, score, vel, acc, life, mom, fc, anomalies, seas) ==
    [name                |-> keyword,
     score               |-> score,
     avg_interest        |-> RTrunc(Mean(time_series)),
     trend               |-> trend_status(vel.direction),
     velocity            |-> vel.direction,
     acceleration        |-> acc.state,
     lifecycle           |-> life.lifecycle,
     lifecycle_desc      |-> life.description,
     momentum            |-> mom.description,
     momentum_score      |-> SurdTrunc(mom.momentum),
     has_anomalies       |-> Len(anomalies) > 0,
     anomaly_count       |-> Len(anomalies),
     forecast            |-> fc.forecasts,
     forecast_confidence |-> fc.confidence,
     is_seasonal         |-> seas.has_seasonality,
     time_series         |-> time_series]

\* each analyzer is called once (lines 166-184) and its result kept
topic_data(keyword, time_series) ==
    CHOOSE topic \in
      { IF anomalies # <<>> /\ HasExtreme(anomalies)
          THEN topic_record(keyword, time_series, score, vel, acc, life, mom, fc,
                            anomalies, seas)
                 @@ [viral_indicator |-> "VIRAL POTENTIAL"]
        ELSE topic_record(keyword, time_series, score, vel, acc, life, mom, fc,
                          anomalies, seas)
        : vel       \in {calculate_trend_velocity(time_series)},
          acc       \in {calculate_trend_acceleration(time_series)},
          life      \in {detect_trend_lifecycle(time_series, keyword)},
          mom       \in {calculate_trend_momentum(time_series)},
          fc        \in {forecast_trend(time_series, 3)},
          anomalies \in {detect_anomalies(time_series).anomalies},
          seas      \in {analyze_seasonality(time_series, Period)},
          score     \in {comprehensive_score(time_series)} } : TRUE

-----------------------------------------------------------------------------
(* cross_correlate_trends, lines 919-964.  trends_dict is a Python dict,   *)
(* modelled as the sequence of its items [kw, data] in insertion order     *)
(* (keys distinct).                                                        *)

RECURSIVE SumProd(_, _)
SumProd(xs, ys) ==
    IF xs = <<>> THEN 0 ELSE Head(xs) * Head(ys) + SumProd(Tail(xs), Tail(ys))

\* np.corrcoef(data1, data2)[0, 1] = cov / sqrt(w1 * w2) for two series of one
\* length n, kept as the three integers cov = n*sum(x*y) - sum(x)*sum(y),
\* w1 = VarNum(data1), w2 = VarNum(data2)
corrcoef(data1, data2) ==
    [cov |-> Len(data1) * SumProd(data1, data2) - Sum(data1) * Sum(data2),
     w1  |-> VarNum(data1),
     w2  |-> VarNum(data2)]

\* sign of abs(corr) - p/q for naturals p, q > 0
CorrAbsCmp(corr, p, q) ==
    ProdCmp(<<q, q, Abs(corr.cov), Abs(corr.cov)>>, <<p, p, corr.w1, corr.w2>>)

\* sign of abs(a) - abs(b) for two coefficients
CorrAbsOrder(a, b) ==
    ProdCmp(<<Abs(a.cov), Abs(a.cov), b.w1, b.w2>>,
            <<Abs(b.cov), Abs(b.cov), a.w1, a.w2>>)

\* lines 933-956 with the pair taken only when it has more than 3 common points
correlate_pair_over3(kw1, kw2, series1, series2) ==
    LET min_len == Min2(Len(series1), Len(series2))
        data1   == FirstK(series1, min_len)
        data2   == FirstK(series2, min_len)
        corr    == corrcoef(data1, data2)
    IN  IF min_len <= 3 THEN <<>>
        ELSE IF VarNum(data1) > 0 /\ VarNum(data2) > 0 /\ CorrAbsCmp(corr, 1, 2) > 0
          THEN << [keyword1    |-> kw1,
                   keyword2    |-> kw2,
                   correlation |-> corr,
                   strength    |-> IF CorrAbsCmp(corr, 7, 10) > 0 THEN "strong"
                                   ELSE "moderate",
                   type        |-> IF corr.cov > 0 THEN "positive" ELSE "negative"] >>
        ELSE <<>>

\* lines 933-956: what one pass of the inner loop appends
correlate_pair(kw1, kw2, series1, series2) ==
    LET min_len == Min2(Len(series1), Len(series2))
        data1   == FirstK(series1, min_len)
        data2   == FirstK(series2, min_len)
        corr    == corrcoef(data1, data2)
    IN  IF min_len < 3 THEN <<>>
        ELSE IF VarNum(data1) > 0 /\ VarNum(data2) > 0 /\ CorrAbsCmp(corr, 1, 2) > 0
          THEN << [keyword1    |-> kw1,
                   keyword2    |-> kw2,
                   correlation |-> corr,
                   strength    |-> IF CorrAbsCmp(corr, 7, 10) > 0 THEN "strong"
                                   ELSE "moderate",
                   type        |-> IF corr.cov > 0 THEN "positive" ELSE "negative"] >>
        ELSE <<>>

\* the two loops of lines 931-932 from the pair (i, j) on
RECURSIVE PairScan(_, _, _)
PairScan(items, i, j) ==
    IF i > Len(items) THEN <<>>
    ELSE IF j > Len(items) THEN PairScan(items, i + 1, i + 2)
    ELSE correlate_pair(items[i].kw, items[j].kw, items[i].data, items[j].data)
           \o PairScan(items, i, j + 1)

\* list.sort(key=abs(correlation), reverse=True): stable, so an entry goes
\* behind the entries already placed whose key is not smaller
InsertByAbs(sorted, entry) ==
    LET ahead == {i \in 1..Len(sorted) :
                     CorrAbsOrder(sorted[i].correlation, entry.correlation) >= 0}
        k     == Cardinality(ahead)
    IN  SubSeq(sorted, 1, k) \o <<entry>> \o SubSeq(sorted, k + 1, Len(sorted))

RECURSIVE SortByAbs(_, _, _)
SortByAbs(correlations, i, sorted) ==
    IF i > Len(correlations) THEN sorted
    ELSE LET nxt == InsertByAbs(sorted, correlations[i])
         IN  IF Len(nxt) = i THEN SortByAbs(correlations, i + 1, nxt) ELSE nxt

\* cross_correlate_trends without the sort of line 959
cross_correlate_trends_unsorted(trends_dict) ==
    IF Len(trends_dict) < 2 THEN <<>> ELSE PairScan(trends_dict, 1, 2)

cross_correlate_trends(trends_dict) ==
    IF Len(trends_dict) < 2 THEN <<>>
    ELSE SortByAbs(PairScan(trends_dict, 1, 2), 1, <<>>)

-----------------------------------------------------------------------------
(* Text.  A Python str is the sequence of its characters, so that          *)
(* `a in b`, str.lower() and the keyword extraction are computed on        *)
(* characters.  Only ASCII letters change under lower().                   *)

Lowers == <<"a", "b", "c", "d", "e", "f", "g", "h", "i", "j", "k", "l", "m", "n", "o", "p", "q", "r", "s", "t", "u", "v", "w", "x", "y", "z">>
Uppers == <<"A", "B", "C", "D", "E", "F", "G", "H", "I", "J", "K", "L", "M", "N", "O", "P", "Q", "R", "S", "T", "U", "V", "W", "X", "Y", "Z">>
Digits == {"0", "1", "2", "3", "4", "5", "6", "7", "8", "9"}

lower_char(c) ==
    IF \E i \in 1..26 : Uppers[i] = c
      THEN Lowers[CHOOSE i \in 1..26 : Uppers[i] = c]
    ELSE c

\* str.lower()
lower(text) == [i \in 1..Len(text) |-> lower_char(text[i])]

\* `sub in text` for two str
Contains(text, sub) ==
    \E k \in 0..(Len(text) - Len(sub)) : \A i \in 1..Len(sub) : text[k + i] = sub[i]

Range(xs) == {xs[i] : i \in 1..Len(xs)}

\* dict.get(key, default)
Get(d, key, default) == IF key \in DOMAIN d THEN d[key] ELSE default

PythonTutorial == <<"p", "y", "t", "h", "o", "n", " ", "t", "u", "t", "o", "r", "i", "a", "l">>

-----------------------------------------------------------------------------
(* extract_meaningful_words and extract_video_keywords, lines 64-123.      *)

\* \w of the regular expression of line 114, on ASCII
IsWordChar(c) == c \in Range(Lowers) \cup Range(Uppers) \cup Digits \cup {"_"}

\* \s, and the separators of str.split() and str.strip()
IsSpace(c) == c \in {" ", "\t", "\n", "\r"}

\* line 114: re.sub(r'[^\w\s]', ' ', text.lower())
clean_text(text) ==
    [i \in 1..Len(text) |->
        IF IsWordChar(text[i]) \/ IsSpace(text[i]) THEN lower_char(text[i]) ELSE " "]

\* str.split(): the maximal runs of non-space characters, in order
split(text) ==
    LET starts == {i \in 1..Len(text) :
                      ~IsSpace(text[i]) /\ (i = 1 \/ IsSpace(text[i - 1]))}
        start(k) == CHOOSE i \in starts : Cardinality({j \in starts : j < i}) = k - 1
        stop(i)  == CHOOSE j \in i..Len(text) :
                      /\ \A m \in i..j : ~IsSpace(text[m])
                      /\ (j = Len(text) \/ IsSpace(text[j + 1]))
    IN  [k \in 1..Cardinality(starts) |-> SubSeq(text, start(k), stop(start(k)))]

\* str.strip()
strip(text) ==
    LET solid == {i \in 1..Len(text) : ~IsSpace(text[i])}
    IN  IF solid = {} THEN <<>>
        ELSE SubSeq(text, CHOOSE i \in solid : \A j \in solid : i <= j,
                          CHOOSE i \in solid : \A j \in solid : j <= i)

\* str.isdigit()
isdigit(word) == word # <<>> /\ \A i \in 1..Len(word) : word[i] \in Digits

\* lines 105-111
stop_words ==
    { <<"t", "h", "e">>, <<"a">>, <<"a", "n">>, <<"a", "n", "d">>, <<"o", "r">>, <<"b", "u", "t">>,
      <<"i", "n">>, <<"o", "n">>, <<"a", "t">>, <<"t", "o">>, <<"f", "o", "r">>, <<"o", "f">>,
      <<"w", "i", "t", "h">>, <<"b", "y">>, <<"f", "r", "o", "m">>, <<"a", "s">>, <<"i", "s">>,
      <<"w", "a", "s">>, <<"a", "r", "e">>, <<"w", "e", "r", "e">>, <<"b", "e">>,
      <<"b", "e", "e", "n">>, <<"b", "e", "i", "n", "g">>, <<"h", "a", "v", "e">>,
      <<"h", "a", "s">>, <<"h", "a", "d">>, <<"d", "o">>, <<"d", "o", "e", "s">>, <<"d", "i", "d">>,
      <<"w", "i", "l", "l">>, <<"w", "o", "u", "l", "d">>, <<"c", "o", "u", "l", "d">>,
      <<"s", "h", "o", "u", "l", "d">>, <<"m", "a", "y">>, <<"m", "i", "g", "h", "t">>,
      <<"c", "a", "n">>, <<"t", "h", "i", "s">>, <<"t", "h", "a", "t">>,
      <<"t", "h", "e", "s", "e">>, <<"t", "h", "o", "s", "e">>, <<"i">>, <<"y", "o", "u">>,
      <<"h", "e">>, <<"s", "h", "e">>, <<"i", "t">>, <<"w", "e">>, <<"t", "h", "e", "y">>,
      <<"m", "y">>, <<"y", "o", "u", "r">>, <<"h", "i", "s">>, <<"h", "e", "r">>, <<"i", "t", "s">>,
      <<"o", "u", "r">>, <<"t", "h", "e", "i", "r">>, <<"w", "h", "a", "t">>,
      <<"w", "h", "i", "c", "h">>, <<"w", "h", "o">>, <<"w", "h", "e", "n">>,
      <<"w", "h", "e", "r", "e">>, <<"w", "h", "y">>, <<"h", "o", "w">>,
      <<"v", "i", "d", "e", "o">>, <<"y", "o", "u", "t", "u", "b", "e">> }

\* lines 99-123
extract_meaningful_words(text) ==
    IF text = <<>> THEN <<>>
    ELSE SelectSeq(split(clean_text(text)),
                   LAMBDA w : w \notin stop_words /\ Len(w) > 2 /\ ~isdigit(w))

\* lines 88-95: the loop that cleans and deduplicates, from keyword i on
RECURSIVE CleanKeywords(_, _, _)
CleanKeywords(keywords, i, cleaned_keywords) ==
    IF i > Len(keywords) THEN cleaned_keywords
    ELSE LET keyword == lower(strip(keywords[i]))
         IN  CleanKeywords(keywords, i + 1,
                 IF keyword # <<>> /\ Len(keyword) > 2 /\ keyword \notin Range(cleaned_keywords)
                   THEN Append(cleaned_keywords, keyword)
                 ELSE cleaned_keywords)

\* lines 64-97
extract_video_keywords(video_data) ==
    LET keywords ==
            FirstK(extract_meaningful_words(video_data.title), 5)
            \o FirstK(video_data.tags, 5)
            \o FirstK(extract_meaningful_words(video_data.description), 3)
    IN  FirstK(CleanKeywords(keywords, 1, <<>>), 10)

-----------------------------------------------------------------------------
(* calculate_trend_score, lines 332-476.  A feedback message is the pair   *)
(* of its text (without the emoji) and the value formatted into it;        *)
(* feedback is the list of the lines that line 474 joins.                  *)

Msg(text, arg) == <<text, arg>>

\* lines 350-352, without the title
topic_matches_no_title(topic_name, video_title, video_desc, video_tags) ==
    \/ Contains(video_desc, topic_name)
    \/ topic_name \in video_tags

\* lines 350-352
topic_matches(topic_name, video_title, video_desc, video_tags) ==
    \/ Contains(video_title, topic_name)
    \/ Contains(video_desc, topic_name)
    \/ topic_name \in video_tags

\* lines 388-391
strong_forecast(topic) ==
    /\ Get(topic, "forecast_confidence", 0) > 70
    /\ Get(topic, "forecast", <<>>) # <<>>
    /\ RGt(topic.forecast[Len(topic.forecast)], RInt(Get(topic, "avg_interest", 0)))

\* lines 356-395 with the bonuses of mature and declining topics exchanged
match_base_score_mature_declining_exchanged(topic) ==
    LET lifecycle == Get(topic, "lifecycle", "unknown")
        momentum_score == Get(topic, "momentum_score", 50)
    IN  10
        + (IF lifecycle = "emerging" THEN 15
           ELSE IF lifecycle = "growing" THEN 12
           ELSE IF lifecycle = "mature" THEN -5
           ELSE IF lifecycle = "declining" THEN 5
           ELSE 0)
        + (IF momentum_score > 75 THEN 10 ELSE IF momentum_score > 60 THEN 5 ELSE 0)
        + (IF Get(topic, "viral_indicator", "") # "" THEN 20 ELSE 0)
        + (IF strong_forecast(topic) THEN 8 ELSE 0)

\* lines 356-395: base_score of a matched topic
match_base_score(topic) ==
    LET lifecycle == Get(topic, "lifecycle", "unknown")
        momentum_score == Get(topic, "momentum_score", 50)
    IN  10
        + (IF lifecycle = "emerging" THEN 15
           ELSE IF lifecycle = "growing" THEN 12
           ELSE IF lifecycle = "mature" THEN 5
           ELSE IF lifecycle = "declining" THEN -5
           ELSE 0)
        + (IF momentum_score > 75 THEN 10 ELSE IF momentum_score > 60 THEN 5 ELSE 0)
        + (IF Get(topic, "viral_indicator", "") # "" THEN 20 ELSE 0)
        + (IF strong_forecast(topic) THEN 8 ELSE 0)

\* lines 363-393: the messages of a matched topic, in order
match_feedback(topic, topic_name) ==
    LET lifecycle == Get(topic, "lifecycle", "unknown")
    IN  (IF lifecycle = "emerging"
           THEN <<Msg("Using emerging trend \"{}\" - excellent timing!", topic_name)>>
         ELSE IF lifecycle = "growing"
           THEN <<Msg("Using growing trend \"{}\" - great opportunity!", topic_name)>>
         ELSE IF lifecycle = "declining"
           THEN <<Msg("Trend \"{}\" is declining - consider fresher topics", topic_name)>>
         ELSE <<>>)
        \o (IF Get(topic, "viral_indicator", "") # ""
              THEN <<Msg("VIRAL POTENTIAL: \"{}\" showing explosive growth!", topic_name)>>
            ELSE <<>>)
        \o (IF strong_forecast(topic)
              THEN <<Msg("Trend \"{}\" predicted to grow stronger", topic_name)>>
            ELSE <<>>)

\* lines 348-395: the loop over trending_topics, from topic i on
RECURSIVE ScanTopics(_, _, _, _, _, _)
ScanTopics(trending_topics, i, acc, video_title, video_desc, video_tags) ==
    IF i > Len(trending_topics) THEN acc
    ELSE LET topic == trending_topics[i]
             topic_name == lower(topic.name)
             nxt ==
               IF topic_matches(topic_name, video_title, video_desc, video_tags)
                 THEN [score |-> acc.score + match_base_score(topic),
                       feedback_points |->
                           acc.feedback_points \o match_feedback(topic, topic_name),
                       trending_matches |-> acc.trending_matches + 1,
                       high_value_matches |-> acc.high_value_matches
                           + (IF Get(topic, "momentum_score", 50) > 75 THEN 1 ELSE 0),
                       viral_potential_matches |-> acc.viral_potential_matches
                           + (IF Get(topic, "viral_indicator", "") # "" THEN 1 ELSE 0),
                       emerging_matches |-> acc.emerging_matches
                           + (IF Get(topic, "lifecycle", "unknown") = "emerging" THEN 1 ELSE 0)]
               ELSE acc
         IN  ScanTopics(trending_topics, i + 1, nxt, video_title, video_desc, video_tags)

\* lines 409-412
related_matches_video(tag_info, video_title, video_desc, video_tags) ==
    LET related_tag == lower(tag_info.tag)
    IN  \/ \E vt \in video_tags : Contains(vt, related_tag)
        \/ Contains(video_title, related_tag)
        \/ Contains(video_desc, related_tag)

\* line 425: 'rising' in velocity.lower(), over the values of velocity
ContainsRising(velocity) == velocity \in {"rising", "rapidly_rising"}

\* line 432 with the test 'celerating' in acceleration
ContainsAccelerating_celerating(acceleration) ==
    acceleration \in {"accelerating", "slowly_accelerating",
                      "decelerating", "slowly_decelerating"}

\* line 432: 'accelerating' in acceleration, over the values of acceleration
ContainsAccelerating(acceleration) == acceleration \in {"accelerating", "slowly_accelerating"}

\* lines 446-456: the timeliness bonus and its message
timeliness(upload_date) ==
    IF Contains(lower(upload_date), <<"a", "g", "o">>)
      THEN IF Contains(upload_date, <<"d", "a", "y">>) \/ Contains(upload_date, <<"h", "o", "u", "r">>)
             THEN [bonus |-> 15,
                   feedback |-> <<Msg("Recent video - optimal for trending topics", <<>>)>>]
           ELSE IF Contains(upload_date, <<"w", "e", "e", "k">>)
             THEN [bonus |-> 10, feedback |-> <<Msg("Recent video", <<>>)>>]
           ELSE [bonus |-> 5,
                 feedback |-> <<Msg("Older video - trends may have shifted", <<>>)>>]
    ELSE [bonus |-> 0, feedback |-> <<>>]

\* lines 334-467: score and feedback_points before the neutral case
score_and_feedback(video_data, trending_topics, related_tags) ==
    LET video_tags  == {lower(tag) : tag \in Range(video_data.tags)}
        video_title == lower(video_data.title)
        video_desc  == lower(video_data.description)
        m == ScanTopics(trending_topics, 1,
                        [score |-> 0, feedback_points |-> <<>>, trending_matches |-> 0,
                         high_value_matches |-> 0, viral_potential_matches |-> 0,
                         emerging_matches |-> 0],
                        video_title, video_desc, video_tags)
        \* lines 398-404
        summary ==
            IF m.trending_matches > 0
              THEN <<Msg("Video uses {} trending keyword(s)", m.trending_matches)>>
                   \o (IF m.high_value_matches > 0
                         THEN <<Msg("{} high-momentum trend(s) detected!", m.high_value_matches)>>
                       ELSE <<>>)
                   \o m.feedback_points
            ELSE Append(m.feedback_points,
                        Msg("Video does not use current trending keywords", <<>>))
        penalty == IF m.trending_matches > 0 THEN 0 ELSE 10
        \* lines 407-419
        related_matches ==
            Cardinality({i \in 1..Min2(10, Len(related_tags)) :
                related_matches_video(related_tags[i], video_title, video_desc, video_tags)})
        related ==
            IF related_matches > 0
              THEN <<Msg("Video aligns with {} related trend(s)", related_matches)>>
            ELSE <<Msg("Consider incorporating trending related topics", <<>>)>>
        \* lines 422-443
        rising_topics ==
            {i \in 1..Len(trending_topics) :
                ContainsRising(Get(trending_topics[i], "velocity", ""))}
        accelerating ==
            {i \in 1..Len(trending_topics) :
                ContainsAccelerating(Get(trending_topics[i], "acceleration", ""))}
        synergy ==
            {i \in 1..Len(trending_topics) :
                Len(Get(trending_topics[i], "correlations", <<>>)) >= 2}
        momentum ==
            (IF rising_topics # {}
               THEN <<Msg("{} keyword(s) have rising momentum", Cardinality(rising_topics))>>
             ELSE <<>>)
            \o (IF accelerating # {}
                  THEN <<Msg("{} keyword(s) are accelerating!", Cardinality(accelerating))>>
                ELSE <<>>)
            \o (IF synergy # {}
                  THEN <<Msg("Trend \"{}\" correlates with multiple other trends - strong synergy!",
                             trending_topics[CHOOSE i \in synergy :
                                                \A j \in synergy : i <= j].name)>>
                ELSE <<>>)
        timely == timeliness(video_data.upload_date)
        \* lines 459-464
        strategy ==
            IF m.emerging_matches > 0
              THEN <<Msg("Strategy: You're ahead of the curve with emerging trends!", <<>>)>>
            ELSE IF m.viral_potential_matches > 0
              THEN <<Msg("Strategy: Capitalize on viral potential with immediate promotion!", <<>>)>>
            ELSE IF m.trending_matches = 0
              THEN <<Msg("Strategy: Update tags with currently trending keywords for better visibility", <<>>)>>
            ELSE <<>>
        score ==
            m.score - penalty + 5 * related_matches
            + (IF rising_topics # {} THEN 15 ELSE 0)
            + (IF accelerating # {} THEN 10 ELSE 0)
            + (IF synergy # {} THEN 5 ELSE 0)
            + timely.bonus
    IN  [score    |-> Min2(100, score),
         feedback |-> summary \o related \o momentum \o timely.feedback \o strategy]

NeutralMessage == Msg("Unable to retrieve trend data - neutral score assigned", <<>>)

\* lines 334-476 without the neutral case of lines 470-472
calculate_trend_score_no_neutral(video_data, trending_topics, related_tags) ==
    score_and_feedback(video_data, trending_topics, related_tags)

calculate_trend_score(video_data, trending_topics, related_tags) ==
    IF trending_topics = <<>> /\ related_tags = <<>>
      THEN [score |-> 50, feedback |-> <<NeutralMessage>>]
    ELSE score_and_feedback(video_data, trending_topics, related_tags)

-----------------------------------------------------------------------------
(* get_trending_topics (lines 125-258), get_related_trends (lines 260-330)  *)
(* and analyze_trends (lines 27-62).                                       *)

\* list.sort(key=lambda x: x['score'], reverse=True) of lines 253 and 314:
\* stable, so an entry goes after the entries of the same or a higher score
InsertByScore(sorted, entry) ==
    LET before == Cardinality({k \in 1..Len(sorted) : sorted[k].score >= entry.score})
    IN  SubSeq(sorted, 1, before) \o <<entry>> \o SubSeq(sorted, before + 1, Len(sorted))

RECURSIVE SortByScore(_, _, _)
SortByScore(entries, i, sorted) ==
    IF i > Len(entries) THEN sorted
    ELSE SortByScore(entries, i + 1, InsertByScore(sorted, entries[i]))

\* lines 247-250 with the list stored under the key 'trend'
with_correlations_under_trend(topic, correlations) ==
    [topic EXCEPT !.trend =
        SelectSeq(correlations,
                  LAMBDA c : c.keyword1 = topic.name \/ c.keyword2 = topic.name)]

\* lines 247-250
with_correlations(topic, correlations) ==
    topic @@ [correlations |->
                SelectSeq(correlations,
                          LAMBDA c : c.keyword1 = topic.name \/ c.keyword2 = topic.name)]

\* lines 243-250 with the test len(trends_data) >= 1
add_correlation_info_one_series(trending_topics, trends_data) ==
    IF Len(trends_data) >= 1
      THEN [i \in 1..Len(trending_topics) |->
              with_correlations(trending_topics[i], cross_correlate_trends(trends_data))]
    ELSE trending_topics

\* lines 243-250: add correlation info to topics
add_correlation_info(trending_topics, trends_data) ==
    IF Len(trends_data) >= 2
      THEN [i \in 1..Len(trending_topics) |->
              with_correlations(trending_topics[i], cross_correlate_trends(trends_data))]
    ELSE trending_topics

\* lines 243-253 without the sort of line 253
finish_trending_topics_unsorted(trending_topics, trends_data) ==
    add_correlation_info(trending_topics, trends_data)

\* lines 243-253
finish_trending_topics(trending_topics, trends_data) ==
    SortByScore(add_correlation_info(trending_topics, trends_data), 1, <<>>)

\* lines 286-290: the entry of a rising query
rising_tag(query, keyword, value) ==
    [tag    |-> query,
     reason |-> <<"Rising trend related to \"{}\" (+{}%)", keyword, value>>,
     score  |-> value]

\* lines 300-304: the entry of a top query
top_tag(query, keyword, value) ==
    [tag    |-> query,
     reason |-> <<"Top search related to \"{}\"", keyword>>,
     score  |-> value]

\* lines 281-290: rising.head(5)
rising_tags(rows, keyword) ==
    [i \in 1..Min2(5, Len(rows)) |-> rising_tag(rows[i].query, keyword, rows[i].value)]

\* lines 295-304: top.head(5)
top_tags(rows, keyword) ==
    [i \in 1..Min2(5, Len(rows)) |-> top_tag(rows[i].query, keyword, rows[i].value)]

\* lines 317-323
RECURSIVE UniqueTags(_, _, _, _)
UniqueTags(related_tags, i, seen, unique_tags) ==
    IF i > Len(related_tags) THEN unique_tags
    ELSE LET tag_lower == lower(related_tags[i].tag)
         IN  IF tag_lower \notin seen
               THEN UniqueTags(related_tags, i + 1, seen \cup {tag_lower},
                               Append(unique_tags, related_tags[i]))
             ELSE UniqueTags(related_tags, i + 1, seen, unique_tags)

\* lines 314-325
finish_related_tags(related_tags) ==
    FirstK(UniqueTags(SortByScore(related_tags, 1, <<>>), 1, {}, <<>>), 15)

\* lines 29-34
InitialResults ==
    [trending_topics |-> <<>>, trend_tags |-> <<>>, trend_score |-> 0, trend_feedback |-> <<>>]

\* lines 41-42
NoKeywordsResults ==
    [InitialResults EXCEPT
        !.trend_feedback = <<Msg("Could not extract keywords for trend analysis", <<>>)>>]

\* lines 46-55 with line 54 left out
scored_results_score_unset(trending_topics, related_tags, scored) ==
    [trending_topics |-> trending_topics,
     trend_tags      |-> related_tags,
     trend_score     |-> 0,
     trend_feedback  |-> scored.feedback]

\* lines 46-55
scored_results(trending_topics, related_tags, scored) ==
    [trending_topics |-> trending_topics,
     trend_tags      |-> related_tags,
     trend_score     |-> scored.score,
     trend_feedback  |-> scored.feedback]

-----------------------------------------------------------------------------
(* The analyzers run one at a time on a series of integer samples in       *)
(* 0..100, as the Trends client delivers them.  get_trending_topics        *)
(* analyses only a non-empty frame (line 155), so a topic is built from at *)
(* least one sample; the analyzers themselves accept any list.             *)

MaxLen == 5
MaxConstLen == 15
Levels == {0, 20, 100}
PythonTutorialSeries == <<10, 12, 15, 20, 28, 35, 45>>

ShortSeries == UNION {[1..n -> Levels] : n \in 1..MaxLen}
ConstantSeries == {[i \in 1..n |-> v] : n \in 1..MaxConstLen, v \in Levels}

\* strictly increasing arithmetic series of 4..MaxArithLen samples within 0..100
MaxArithLen == 6
ArithmeticSeries ==
    {s \in {[i \in 1..n |-> a + (i - 1) * d] : n \in 4..MaxArithLen,
                                                a \in {0, 10, 70}, d \in {1, 10, 30}} :
        s[Len(s)] <= 100}

\* short series whose recent velocity, recent acceleration or momentum sits on
\* a threshold of the classifiers (5, 1, -1, -5; 2, 1/2, -1/2, -2; 60), or
\* strictly between two of them
ThresholdSeries ==
    { <<0, 5>>, <<0, 1>>, <<1, 0>>, <<5, 0>>, <<0, 3>>, <<3, 0>>,
      <<0, 0, 4>>, <<0, 0, 1>>, <<1, 1, 0>>, <<4, 4, 0>>, <<0, 0, 2>>, <<2, 2, 0>>,
      <<50, 50, 50>> }

SeriesPool ==
    ShortSeries \cup ConstantSeries \cup ArithmeticSeries \cup ThresholdSeries
      \cup {PythonTutorialSeries}

\* longer series: isolated spikes and drops (z-scores above 2, 3 and above 3),
\* 8 samples whose lag-2 autocorrelation is exactly 3/10 or 1/2, two weeks
\* of samples with a weekly pattern that is exact, reversed or moderate, and
\* 20 samples ending in a spike of z-score above 2 and one of z-score above 3,
\* 5 samples with a z-score of exactly 2 and 10 with one of exactly 3 that the
\* doubles round above it, and 9 with the largest z-score 9 samples can have
LongSeries ==
    { <<7, 4, 4, 4, 4>>,
      <<0, 0, 0, 0, 0, 0, 0, 0, 0, 21>>,
      <<0, 0, 0, 0, 0, 0, 0, 0, 100>>,
      <<1, 0, 0, 0, 0, 100, 0, 0, 0>>,
      <<0, 0, 0, 0, 0, 100>>,
      <<100, 100, 100, 100, 100, 0>>,
      <<0, 0, 0, 0, 0, 0, 0, 0, 0, 100>>,
      <<0, 0, 0, 0, 0, 0, 0, 0, 0, 0, 100>>,
      <<100, 100, 100, 100, 100, 100, 100, 100, 100, 100, 0>>,
      <<50, 50, 50, 50, 50, 50, 50, 50, 50, 50, 100, 0>>,
      <<10, 20, 30, 40, 50, 60, 100, 10, 20, 30, 40, 50, 60, 100>>,
      <<0, 100, 0, 100, 0, 100, 0, 100, 0, 100, 0, 100, 0, 100>>,
      <<10, 20, 30, 40, 50, 60, 100, 20, 20, 30, 0, 30, 30, 60>>,
      <<0, 0, 0, 0, 2, 4, 3, 3>>,
      <<0, 0, 0, 1, 0, 1, 0, 2>>,
      <<0, 0, 0, 0, 0, 0, 0, 0, 0, 0, 0, 0, 0, 0, 0, 0, 0, 0, 60, 100>> }

IsConstant(xs) == \A i \in 1..Len(xs) : xs[i] = xs[1]

\* what a caller can hand to an analyzer: any list, the empty one too
AnalyzerPool == SeriesPool \cup LongSeries \cup {<<>>}
\* the smoothing of a long series leaves the range of the model's integers
ForecastPool == SeriesPool \cup {<<>>}
\* the series a topic is built from: not empty (line 155), and among the long
\* ones those of at most 8 samples or with a level start, whose smoothing
\* stays in range
TopicPool ==
    SeriesPool \cup {s \in LongSeries : Len(s) <= 8 \/ IsConstant(FirstK(s, 5))}

\* periods_ahead of a call, the one of line 178 among them
MaxHorizon == 3
Horizons == 0..MaxHorizon
\* period of a call, the default of line 820 among them
Periods == {2, Period}

NoVideo == [title |-> <<>>, description |-> <<>>, tags |-> <<>>, upload_date |-> <<>>]

SeriesInit ==
    /\ pc = "idle"
    /\ series = <<>>
    /\ result = <<>>
    /\ video = NoVideo
    /\ kws = <<>>
    /\ topics = <<>>
    /\ trends = <<>>
    /\ tags = <<>>
    /\ calls = <<>>
    /\ horizon = 3
    /\ lag = Period
    /\ trend_history = <<>>
    /\ analyses = 0
    /\ returns = <<>>
    /\ gui = <<>>

\* One action per analyzer: a call on a series of the pool, result its return.
RunVelocity ==
    /\ pc = "idle"
    /\ \E s \in AnalyzerPool : series' = s /\ result' = calculate_trend_velocity(s)
    /\ pc' = "calculate_trend_velocity"
    /\ UNCHANGED <<video, kws, topics, trends, tags, calls, horizon, lag,
                 trend_history, analyses, returns, gui>>

RunAcceleration ==
    /\ pc = "idle"
    /\ \E s \in AnalyzerPool : series' = s /\ result' = calculate_trend_acceleration(s)
    /\ pc' = "calculate_trend_acceleration"
    /\ UNCHANGED <<video, kws, topics, trends, tags, calls, horizon, lag,
                 trend_history, analyses, returns, gui>>

RunLifecycle ==
    /\ pc = "idle"
    /\ \E s \in AnalyzerPool : series' = s /\ result' = detect_trend_lifecycle(s, "")
    /\ pc' = "detect_trend_lifecycle"
    /\ UNCHANGED <<video, kws, topics, trends, tags, calls, horizon, lag,
                 trend_history, analyses, returns, gui>>

RunMomentum ==
    /\ pc = "idle"
    /\ \E s \in AnalyzerPool : series' = s /\ result' = calculate_trend_momentum(s)
    /\ pc' = "calculate_trend_momentum"
    /\ UNCHANGED <<video, kws, topics, trends, tags, calls, horizon, lag,
                 trend_history, analyses, returns, gui>>

RunForecast ==
    /\ pc = "idle"
    /\ \E s \in ForecastPool, n \in Horizons :
          series' = s /\ horizon' = n /\ result' = forecast_trend(s, n)
    /\ pc' = "forecast_trend"
    /\ UNCHANGED <<video, kws, topics, trends, tags, calls, lag, trend_history,
                 analyses, returns, gui>>

RunAnomalies ==
    /\ pc = "idle"
    /\ \E s \in AnalyzerPool : series' = s /\ result' = detect_anomalies(s)
    /\ pc' = "detect_anomalies"
    /\ UNCHANGED <<video, kws, topics, trends, tags, calls, horizon, lag,
                 trend_history, analyses, returns, gui>>

RunSeasonality ==
    /\ pc = "idle"
    /\ \E s \in AnalyzerPool, p \in Periods :
          series' = s /\ lag' = p /\ result' = analyze_seasonality(s, p)
    /\ pc' = "analyze_seasonality"
    /\ UNCHANGED <<video, kws, topics, trends, tags, calls, horizon, trend_history,
                 analyses, returns, gui>>

\* lines 155-233 for the keyword "python tutorial" and a fetched series
RunTopic ==
    /\ pc = "idle"
    /\ \E s \in TopicPool : series' = s /\ result' = topic_data(PythonTutorial, s)
    /\ pc' = "topic_data"
    /\ UNCHANGED <<video, kws, topics, trends, tags, calls, horizon, lag,
                 trend_history, analyses, returns, gui>>

\* lines 186-193 alone: the score a topic stores for a fetched series
RunComprehensiveScore ==
    /\ pc = "idle"
    /\ \E s \in AnalyzerPool \ {<<>>} :
          series' = s /\ result' = [score |-> comprehensive_score(s)]
    /\ pc' = "comprehensive_score"
    /\ UNCHANGED <<video, kws, topics, trends, tags, calls, horizon, lag,
                 trend_history, analyses, returns, gui>>

SeriesNext ==
    \/ RunVelocity
    \/ RunAcceleration
    \/ RunLifecycle
    \/ RunMomentum
    \/ RunForecast
    \/ RunAnomalies
    \/ RunSeasonality
    \/ RunTopic
    \/ RunComprehensiveScore

SpecSeries == SeriesInit /\ [][SeriesNext]_vars

-----------------------------------------------------------------------------
(* get_trending_topics stores each fetched series under its keyword        *)
(* (line 158) and hands the dict to cross_correlate_trends (line 244);     *)
(* the function is also callable on any dict, of fewer than 2 series too.  *)

MaxKeys == 3

CorrKeywords == <<"python", "tutorial", "coding", "django", "flask">>
CorrSeries ==
    { <<0, 100>>, <<0, 0, 100>>, <<100, 100, 0>>, <<0, 50, 100>>, <<0, 100, 50>>,
      <<50, 50, 50, 50>>, <<0, 0, 0, 100>>, <<0, 0, 100, 100>>, <<0, 100, 100, 0>> }

CorrInit ==
    /\ pc = "collect"
    /\ trends = <<>>
    /\ result = <<>>
    /\ series = <<>>
    /\ video = NoVideo
    /\ kws = <<>>
    /\ topics = <<>>
    /\ tags = <<>>
    /\ calls = <<>>
    /\ horizon = 3
    /\ lag = Period
    /\ trend_history = <<>>
    /\ analyses = 0
    /\ returns = <<>>
    /\ gui = <<>>

\* line 158: trends_data[keyword] = time_series, for the next keyword
StoreSeries ==
    /\ pc = "collect"
    /\ Len(trends) < MaxKeys
    /\ \E s \in CorrSeries :
          trends' = Append(trends, [kw |-> CorrKeywords[Len(trends) + 1], data |-> s])
    /\ UNCHANGED <<pc, series, result, video, kws, topics, tags, calls, horizon, lag,
                 trend_history, analyses, returns, gui>>

\* a call cross_correlate_trends(trends_data)
RunCrossCorrelate ==
    /\ pc = "collect"
    /\ result' = cross_correlate_trends(trends)
    /\ pc' = "cross_correlate_trends"
    /\ UNCHANGED <<series, video, kws, topics, trends, tags, calls, horizon, lag,
                 trend_history, analyses, returns, gui>>

CorrNext == StoreSeries \/ RunCrossCorrelate

SpecCorr == CorrInit /\ [][CorrNext]_vars

-----------------------------------------------------------------------------
(* calculate_trend_score is called on a video, a list of topic records as  *)
(* get_trending_topics builds them and a list of related tags as           *)
(* get_related_trends builds them.                                         *)

MaxTopics == 2
MaxRelated == 11

Django == <<"d", "j", "a", "n", "g", "o">>
Flask == <<"f", "l", "a", "s", "k">>

\* a topic whose series correlates with two other keywords (lines 245-250)
WithCorrelations(topic) ==
    topic @@ [correlations |->
                <<[keyword1 |-> topic.name, keyword2 |-> <<"n", "u", "m", "p", "y">>,
                   correlation |-> [cov |-> 1, w1 |-> 1, w2 |-> 1],
                   strength |-> "strong", type |-> "positive"],
                  [keyword1 |-> <<"p", "a", "n", "d", "a", "s">>, keyword2 |-> topic.name,
                   correlation |-> [cov |-> -1, w1 |-> 1, w2 |-> 1],
                   strength |-> "strong", type |-> "negative"]>>]

\* the keywords and series of the pool, and whether correlations are attached
TopicSources ==
    { <<PythonTutorial, PythonTutorialSeries, FALSE>>,
      <<PythonTutorial, <<20, 40, 20, 45, 25, 50, 30>>, FALSE>>,
      <<Django, <<10, 10, 10, 10, 10, 10, 10, 10, 10, 10, 60>>, FALSE>>,
      <<Flask, <<60, 50, 45, 40, 35, 30, 25>>, TRUE>>,
      <<Flask, <<80, 78, 80, 79, 80, 78, 80>>, FALSE>>,
      <<Django, <<50, 50, 50>>, TRUE>> }

ScoreTopics ==
    { IF src[3] THEN WithCorrelations(topic_data(src[1], src[2]))
      ELSE topic_data(src[1], src[2]) : src \in TopicSources }

\* keywords are distinct (extract_video_keywords, lines 91-95)
TopicLists ==
    {ts \in UNION {[1..n -> ScoreTopics] : n \in 0..MaxTopics} :
        \A i, j \in 1..Len(ts) : ts[i].name = ts[j].name => i = j}

RelatedQueries ==
    << <<"p", "y", "t", "h", "o", "n", " ", "c", "o", "u", "r", "s", "e">>, <<"d", "j", "a", "n", "g", "o">>, <<"f", "l", "a", "s", "k">>, <<"n", "u", "m", "p", "y">>, <<"p", "a", "n", "d", "a", "s">>, <<"s", "c", "i", "p", "y">>,
       <<"r", "u", "s", "t">>, <<"r", "u", "b", "y">>, <<"p", "e", "r", "l">>, <<"j", "a", "v", "a">>, <<"w", "e", "b">>, <<"a", "p", "i">> >>

\* lists of the first n related queries: none, one, two, the ten that line
\* 408 looks at, and one more
RelatedLists ==
    {[i \in 1..n |-> rising_tag(RelatedQueries[i], <<"p", "y", "t", "h", "o", "n">>, 100)] :
        n \in {0, 1, 2, MaxRelated - 1, MaxRelated}}

Titles ==
    { <<"P", "y", "t", "h", "o", "n", " ", "T", "u", "t", "o", "r", "i", "a", "l">>,
      <<"D", "j", "a", "n", "g", "o", " ", "F", "l", "a", "s", "k", " ", "N", "u", "m", "P", "y", " ", "P", "a", "n", "d", "a", "s">>,
      <<"C", "o", "o", "k", "i", "n", "g", " ", "p", "a", "s", "t", "a">> }
Descriptions ==
    { <<>>, <<"p", "y", "t", "h", "o", "n", " ", "t", "u", "t", "o", "r", "i", "a", "l", " ", "n", "o", "t", "e", "s">>,
      <<"p", "y", "t", "h", "o", "n", " ", "c", "o", "u", "r", "s", "e", " ", "d", "j", "a", "n", "g", "o", " ", "f", "l", "a", "s", "k", " ", "n", "u", "m", "p", "y", " ", "p", "a", "n", "d", "a", "s", " ", "s", "c", "i", "p", "y", " ", "r", "u", "s", "t", " ", "r", "u", "b", "y", " ", "p", "e", "r", "l", " ", "j", "a", "v", "a", " ", "w", "e", "b", " ", "a", "p", "i">> }
TagLists ==
    { <<>>, << <<"P", "y", "t", "h", "o", "n", " ", "T", "u", "t", "o", "r", "i", "a", "l">> >>, << <<"D", "j", "a", "n", "g", "o", " ", "T", "i", "p", "s">>, <<"w", "e", "b">> >> }
UploadDates ==
    { <<>>, <<"5", " ", "h", "o", "u", "r", "s", " ", "a", "g", "o">>, <<"3", " ", "w", "e", "e", "k", "s", " ", "a", "g", "o">>, <<"2", " ", "D", "a", "y", "s", " ", "A", "g", "o">> }

Videos ==
    [title : Titles, description : Descriptions, tags : TagLists, upload_date : UploadDates]

ScoreInit ==
    /\ pc = "idle"
    /\ video \in Videos
    /\ topics \in TopicLists
    /\ tags \in RelatedLists
    /\ result = <<>>
    /\ series = <<>>
    /\ kws = <<>>
    /\ trends = <<>>
    /\ calls = <<>>
    /\ horizon = 3
    /\ lag = Period
    /\ trend_history = <<>>
    /\ analyses = 0
    /\ returns = <<>>
    /\ gui = <<>>

\* a call calculate_trend_score(video_data, trending_topics, related_tags)
RunScore ==
    /\ pc = "idle"
    /\ result' = calculate_trend_score(video, topics, tags)
    /\ pc' = "calculate_trend_score"
    /\ UNCHANGED <<series, video, kws, topics, trends, tags, calls, horizon, lag,
                 trend_history, analyses, returns, gui>>

ScoreNext == RunScore

SpecScore == ScoreInit /\ [][ScoreNext]_vars

-----------------------------------------------------------------------------
(* Runs of analyze_trends on one TrendAnalyzer.  The Trends client is the  *)
(* environment: each of its calls raises, returns nothing usable, or       *)
(* returns data.  calls records the calls the running analysis has made    *)
(* and their outcomes.                                                     *)

MaxAnalyses == 2

\* deque(maxlen=100), line 25
maxlen == 100

FetchedSeries == {PythonTutorialSeries, <<60, 50, 45, 40, 35, 30, 25>>}

RisingRows ==
    << [query |-> <<"p", "y", "t", "h", "o", "n", " ", "c", "o", "u", "r", "s", "e">>, value |-> 250], [query |-> <<"D", "j", "a", "n", "g", "o">>, value |-> 120],
       [query |-> <<"n", "u", "m", "p", "y">>, value |-> 90],          [query |-> <<"p", "a", "n", "d", "a", "s">>, value |-> 90],
       [query |-> <<"s", "c", "i", "p", "y">>, value |-> 60],          [query |-> <<"r", "u", "s", "t">>, value |-> 40] >>
TopRows == << [query |-> <<"d", "j", "a", "n", "g", "o">>, value |-> 100], [query |-> <<"w", "e", "b">>, value |-> 70] >>

AnalysedVideos ==
    { [title |-> <<"T", "h", "e", " ", "v", "i", "d", "e", "o">>, description |-> <<>>, tags |-> <<>>, upload_date |-> <<>>],
      [title |-> <<"P", "y", "t", "h", "o", "n", " ", "T", "u", "t", "o", "r", "i", "a", "l">>, description |-> <<>>, tags |-> <<>>,
       upload_date |-> <<"3", " ", "w", "e", "e", "k", "s", " ", "a", "g", "o">>],
      [title |-> <<>>, description |-> <<>>, tags |-> << <<" ", "F", "l", "a", "s", "k", " ">> >>, upload_date |-> <<>>],
      [title |-> <<"P", "y", "t", "h", "o", "n", " ", "T", "u", "t", "o", "r", "i", "a", "l", "!">>, description |-> <<"f", "l", "a", "s", "k">>, tags |-> << <<"D", "j", "a", "n", "g", "o">> >>,
       upload_date |-> <<"5", " ", "h", "o", "u", "r", "s", " ", "a", "g", "o">>] }

InterestCalls == SelectSeq(calls, LAMBDA c : c.call = "interest_over_time")
RelatedCalls == SelectSeq(calls, LAMBDA c : c.call = "related_queries")

Init ==
    /\ pc = "analyze_trends"
    /\ video \in AnalysedVideos
    /\ result = InitialResults
    /\ kws = <<>>
    /\ topics = <<>>
    /\ trends = <<>>
    /\ tags = <<>>
    /\ calls = <<>>
    /\ series = <<>>
    /\ horizon = 3
    /\ lag = Period
    /\ trend_history = <<>>
    /\ analyses = 0
    /\ returns = <<>>
    /\ gui = <<>>

\* lines 38-42
ExtractKeywords ==
    /\ pc = "analyze_trends"
    /\ kws' = extract_video_keywords(video)
    /\ IF kws' = <<>>
         THEN result' = NoKeywordsResults /\ pc' = "done"
       ELSE result' = result /\ pc' = "get_trending_topics"
    /\ analyses' = IF kws' = <<>> THEN analyses + 1 ELSE analyses
    /\ UNCHANGED <<series, video, topics, trends, tags, calls, horizon, lag,
                 trend_history, returns, gui>>

\* the next keyword of the loop of line 142
NextInterestKeyword == FirstK(kws, 5)[Len(InterestCalls) + 1]

\* lines 143-153 and 238-240: build_payload or interest_over_time raises
InterestRaises ==
    /\ pc = "get_trending_topics"
    /\ Len(InterestCalls) < Len(FirstK(kws, 5))
    /\ calls' = Append(calls, [call |-> "interest_over_time",
                               keyword |-> NextInterestKeyword, outcome |-> "raise"])
    /\ UNCHANGED <<pc, series, result, video, kws, topics, trends, tags, horizon, lag,
                 trend_history, analyses, returns, gui>>

\* line 155: the frame is empty or lacks the keyword
InterestEmpty ==
    /\ pc = "get_trending_topics"
    /\ Len(InterestCalls) < Len(FirstK(kws, 5))
    /\ calls' = Append(calls, [call |-> "interest_over_time",
                               keyword |-> NextInterestKeyword, outcome |-> "empty"])
    /\ UNCHANGED <<pc, series, result, video, kws, topics, trends, tags, horizon, lag,
                 trend_history, analyses, returns, gui>>

\* lines 155-233: a series is fetched and analysed
InterestAnalysed ==
    /\ pc = "get_trending_topics"
    /\ Len(InterestCalls) < Len(FirstK(kws, 5))
    /\ \E time_series \in FetchedSeries :
          /\ trends' = Append(trends, [kw |-> NextInterestKeyword, data |-> time_series])
          /\ topics' = Append(topics, topic_data(NextInterestKeyword, time_series))
    /\ calls' = Append(calls, [call |-> "interest_over_time",
                               keyword |-> NextInterestKeyword, outcome |-> "data"])
    /\ UNCHANGED <<pc, series, result, video, kws, tags, horizon, lag,
                 trend_history, analyses, returns, gui>>

\* lines 243-258 and 45-46
FinishTopics ==
    /\ pc = "get_trending_topics"
    /\ Len(InterestCalls) = Len(FirstK(kws, 5))
    /\ topics' = finish_trending_topics(topics, trends)
    /\ result' = [result EXCEPT !.trending_topics = topics']
    /\ pc' = "get_related_trends"
    /\ UNCHANGED <<series, video, kws, trends, tags, calls, horizon, lag,
                 trend_history, analyses, returns, gui>>

\* the next keyword of the loop of line 265, over the keywords[:3] of line 49
NextRelatedKeyword == FirstK(FirstK(kws, 3), 3)[Len(RelatedCalls) + 1]

\* lines 266-276 and 309-311: build_payload or related_queries raises
RelatedRaises ==
    /\ pc = "get_related_trends"
    /\ Len(RelatedCalls) < Len(FirstK(FirstK(kws, 3), 3))
    /\ calls' = Append(calls, [call |-> "related_queries",
                               keyword |-> NextRelatedKeyword, outcome |-> "raise"])
    /\ UNCHANGED <<pc, series, result, video, kws, topics, trends, tags, horizon, lag,
                 trend_history, analyses, returns, gui>>

\* lines 278-304: the keyword is missing, or it has no rising and no top rows
RelatedNothing ==
    /\ pc = "get_related_trends"
    /\ Len(RelatedCalls) < Len(FirstK(FirstK(kws, 3), 3))
    /\ calls' = Append(calls, [call |-> "related_queries",
                               keyword |-> NextRelatedKeyword, outcome |-> "nothing"])
    /\ UNCHANGED <<pc, series, result, video, kws, topics, trends, tags, horizon, lag,
                 trend_history, analyses, returns, gui>>

\* lines 280-290: rising rows
RelatedRising ==
    /\ pc = "get_related_trends"
    /\ Len(RelatedCalls) < Len(FirstK(FirstK(kws, 3), 3))
    /\ tags' = tags \o rising_tags(RisingRows, NextRelatedKeyword)
    /\ calls' = Append(calls, [call |-> "related_queries",
                               keyword |-> NextRelatedKeyword, outcome |-> "rising"])
    /\ UNCHANGED <<pc, series, result, video, kws, topics, trends, horizon, lag,
                 trend_history, analyses, returns, gui>>

\* lines 292-304: no rising rows, top rows; used only while related_tags is empty
RelatedTop ==
    /\ pc = "get_related_trends"
    /\ Len(RelatedCalls) < Len(FirstK(FirstK(kws, 3), 3))
    /\ tags' = IF tags = <<>> THEN top_tags(TopRows, NextRelatedKeyword) ELSE tags
    /\ calls' = Append(calls, [call |-> "related_queries",
                               keyword |-> NextRelatedKeyword, outcome |-> "top"])
    /\ UNCHANGED <<pc, series, result, video, kws, topics, trends, horizon, lag,
                 trend_history, analyses, returns, gui>>

\* lines 313-330 and 49-50
FinishRelated ==
    /\ pc = "get_related_trends"
    /\ Len(RelatedCalls) = Len(FirstK(FirstK(kws, 3), 3))
    /\ tags' = finish_related_tags(tags)
    /\ result' = [result EXCEPT !.trend_tags = tags']
    /\ pc' = "calculate_trend_score"
    /\ UNCHANGED <<series, video, kws, topics, trends, calls, horizon, lag,
                 trend_history, analyses, returns, gui>>

\* lines 53-55 and 62
ScoreAndReturn ==
    /\ pc = "calculate_trend_score"
    /\ result' = scored_results(topics, tags, calculate_trend_score(video, topics, tags))
    /\ pc' = "done"
    /\ analyses' = analyses + 1
    /\ UNCHANGED <<series, video, kws, topics, trends, tags, calls, horizon, lag,
                 trend_history, returns, gui>>

\* the caller (main.py, line 268) hands the next video to the same analyzer;
\* lines 29-34
NextAnalysis ==
    /\ pc = "done"
    /\ analyses < MaxAnalyses
    /\ pc' = "analyze_trends"
    /\ video' \in AnalysedVideos
    /\ result' = InitialResults
    /\ kws' = <<>>
    /\ topics' = <<>>
    /\ trends' = <<>>
    /\ tags' = <<>>
    /\ calls' = <<>>
    /\ UNCHANGED <<series, horizon, lag, trend_history, analyses, returns, gui>>

Next ==
    \/ ExtractKeywords
    \/ InterestRaises
    \/ InterestEmpty
    \/ InterestAnalysed
    \/ FinishTopics
    \/ RelatedRaises
    \/ RelatedNothing
    \/ RelatedRising
    \/ RelatedTop
    \/ FinishRelated
    \/ ScoreAndReturn
    \/ NextAnalysis

Spec == Init /\ [][Next]_vars

-----------------------------------------------------------------------------
(* Properties of analyze_trends, checked under Spec.                       *)

AllCallsRaised == \A i \in 1..Len(calls) : calls[i].outcome = "raise"

NeutralReturn ==
    /\ result.trending_topics = <<>>
    /\ result.trend_tags = <<>>
    /\ result.trend_score = 50

\* C3: when the Trends client raises on every call made during analyze_trends
\* (at least one call is made), analyze_trends returns no topics, no related
\* tags and trend_score exactly 50.
C3_FailingClientNeutral ==
    (pc = "done" /\ calls # <<>> /\ AllCallsRaised) => NeutralReturn

\* a finished run of seven calls, four for interest and three for related
\* queries, that all raised
C3_SevenCallsRaised ==
    /\ pc = "done"
    /\ Len(InterestCalls) = 4
    /\ Len(RelatedCalls) = 3
    /\ AllCallsRaised
    /\ result.trend_score = 50

\* C13: after any sequence of analyses the rolling history holds one entry per
\* analysis performed and at most maxlen entries, the oldest evicted first:
\* after k analyses it holds min(k, maxlen) entries.
C13_HistoryPerAnalysis == Len(trend_history) = Min2(analyses, maxlen)

-----------------------------------------------------------------------------
(* Properties of the analyzers, checked under SpecSeries.                  *)

\* The k-th branch condition of the lifecycle classifier, in the stated order.
StatedBranch(xs, k) ==
    LET mean   == Mean(xs)
        slope  == Slope(xs)
        recent == Mean(LastK(xs, 3))
        early  == Mean(FirstK(xs, 3))
        max    == RInt(SeqMax(xs))
    IN  CASE k = 1 -> RLt(mean, RInt(20)) /\ RGt(slope, RInt(1))
          [] k = 2 -> RGt(slope, RInt(2)) /\ RGt(RMul(recent, RInt(2)), RMul(early, RInt(3)))
          [] k = 3 -> RGt(slope, Rat(1, 2)) /\ RGt(RMul(recent, RInt(10)), RMul(mean, RInt(9)))
          [] k = 4 -> RLt(RAbs(slope), Rat(1, 2)) /\ RGt(mean, RInt(70))
          [] k = 5 -> RGe(RMul(recent, RInt(100)), RMul(max, RInt(95))) /\ RLt(slope, RInt(1))
          [] k = 6 -> RLt(slope, RInt(-1)) /\ RLt(recent, mean)
          [] k = 7 -> RLt(slope, RInt(0))
          [] k = 8 -> TRUE

StatedPhase(k) ==
    <<"emerging", "growing", "growing", "mature", "peak", "declining", "declining",
      "stable">>[k]
StatedScore(k) == <<75, 85, 70, 60, 55, 30, 40, 50>>[k]

FirstBranch(xs) ==
    CHOOSE k \in 1..8 : StatedBranch(xs, k) /\ \A j \in 1..(k - 1) : ~StatedBranch(xs, j)

\* C4: for every series of at least 5 points detect_trend_lifecycle returns the
\* phase and the score of the first branch, in the order 1..8, whose condition
\* holds; a series with mean < 20 and slope > 1 is emerging with score 75 even
\* when a growing condition holds too.
C4_FirstMatchingBranch ==
    (pc = "detect_trend_lifecycle" /\ Len(series) >= 5) =>
        /\ result.lifecycle = StatedPhase(FirstBranch(series))
        /\ result.score = StatedScore(FirstBranch(series))
        /\ (StatedBranch(series, 1) => result.lifecycle = "emerging" /\ result.score = 75)

\* a classified series that meets the emerging test and a growing test
C4_EmergingAndGrowing ==
    /\ pc = "detect_trend_lifecycle"
    /\ Len(series) >= 5
    /\ StatedBranch(series, 1)
    /\ (StatedBranch(series, 2) \/ StatedBranch(series, 3))
    /\ result.lifecycle = "emerging"

\* C5 as stated: the topic built for "python tutorial" from
\* [10,12,15,20,28,35,45] has velocity direction rising, lifecycle growing and
\* a comprehensive score above 65.
C5_RisingAbove65 ==
    (pc = "topic_data" /\ series = PythonTutorialSeries) =>
        /\ result.velocity = "rising"
        /\ result.lifecycle = "growing"
        /\ result.score > 65

\* C5 amended: that topic has velocity direction rapidly_rising, lifecycle
\* growing and comprehensive score 62.
C5_RapidlyRising62 ==
    (pc = "topic_data" /\ series = PythonTutorialSeries) =>
        /\ result.name = PythonTutorial
        /\ result.velocity = "rapidly_rising"
        /\ result.lifecycle = "growing"
        /\ result.score = 62

\* the topic of the scenario has been built
C5_ScenarioAnalysed ==
    /\ pc = "topic_data"
    /\ series = PythonTutorialSeries
    /\ result.name = PythonTutorial
    /\ result.time_series = PythonTutorialSeries

\* 100 times the stated weighted sum of the five scores of a series
StatedSum100(xs) ==
    SurdAddRat(SurdScale(calculate_trend_momentum(xs).momentum, RInt(20)),
               RAdd(RAdd(RMul(Mean(xs), RInt(25)),
                         RMul(calculate_trend_velocity(xs).score, RInt(20))),
                    RInt(25 * detect_trend_lifecycle(xs, "").score
                           + 10 * calculate_trend_acceleration(xs).score)))

\* C7 as stated: the comprehensive score of every analysed series is the
\* weighted sum 0.25*avg + 0.20*velocity + 0.25*lifecycle + 0.20*momentum
\* + 0.10*acceleration rounded to the nearest integer (at most 1/2 away).
C7_RoundedToNearest ==
    pc = "topic_data" =>
        /\ SurdCmp(StatedSum100(series), RInt(100 * result.score - 50)) >= 0
        /\ SurdCmp(StatedSum100(series), RInt(100 * result.score + 50)) <= 0

\* C7 amended: the comprehensive score is that weighted sum with its
\* fractional part dropped (truncated toward zero).
C7_Truncated ==
    pc = "topic_data" =>
        IF SurdCmp(StatedSum100(series), RInt(0)) >= 0
          THEN /\ SurdCmp(StatedSum100(series), RInt(100 * result.score)) >= 0
               /\ SurdCmp(StatedSum100(series), RInt(100 * result.score + 100)) < 0
          ELSE /\ SurdCmp(StatedSum100(series), RInt(100 * result.score)) <= 0
               /\ SurdCmp(StatedSum100(series), RInt(100 * result.score - 100)) > 0

\* a topic whose weighted sum has a fractional part above 1/2
C7_FractionAboveHalf ==
    /\ pc = "topic_data"
    /\ SurdCmp(StatedSum100(series), RInt(100 * result.score + 50)) > 0

\* C10: on every constant series detect_anomalies returns the empty list and
\* analyze_seasonality returns has_seasonality false with score 0, and neither
\* divides by zero.
C10_ConstantSeries ==
    /\ (pc = "detect_anomalies" /\ IsConstant(series)) =>
           (result.anomalies = <<>> /\ ~result.zero_div)
    /\ (pc = "analyze_seasonality" /\ IsConstant(series)) =>
           (~result.has_seasonality /\ result.score = RInt(0) /\ ~result.zero_div)

\* a constant series long enough to reach the variance test of line 836
C10_ConstantReachesVarianceTest ==
    /\ pc = "analyze_seasonality"
    /\ IsConstant(series)
    /\ Len(series) >= 2 * Period
    /\ result.description = "No variance in data"

\* a strictly increasing arithmetic series of at least 4 samples
IsArithmeticIncreasing(xs) ==
    /\ Len(xs) >= 4
    /\ xs[2] > xs[1]
    /\ \A i \in 1..(Len(xs) - 1) : xs[i + 1] - xs[i] = xs[2] - xs[1]

\* s[i] of the exponential smoothing with alpha = 3/10: s[1] = x[1] and
\* s[i] = alpha * x[i] + (1 - alpha) * s[i - 1]
RECURSIVE StatedSmoothing(_, _)
StatedSmoothing(xs, i) ==
    IF i = 1 THEN RInt(xs[1])
    ELSE LET before == StatedSmoothing(xs, i - 1)
         IN  IF before.d > 0
               THEN RAdd(RMul(Rat(3, 10), RInt(xs[i])),
                         RMul(RSub(RInt(1), Rat(3, 10)), before))
             ELSE before

\* a <= b for non-negative rationals of any size
RLeBig(a, b) == ProdCmp(<<a.n, b.d>>, <<b.n, a.d>>) <= 0

\* C11 as stated: on a strictly increasing arithmetic series of at least 4
\* samples in 0..100 every forecast is at most 100, not below the forecast
\* before it and not below the series it extends (its last sample).
C11_ForecastsNotBelowSeries ==
    (pc = "forecast_trend" /\ IsArithmeticIncreasing(series)) =>
        \A k \in 1..Len(result.forecasts) :
            /\ RLeBig(result.forecasts[k], RInt(100))
            /\ k > 1 => RLeBig(result.forecasts[k - 1], result.forecasts[k])
            /\ RLeBig(RInt(series[Len(series)]), result.forecasts[k])

\* C11 amended: on such a series every forecast is at most 100, not below the
\* forecast before it and not below the last value s[last] of the smoothed
\* series it extends.
C11_ForecastsNotBelowSmoothed ==
    (pc = "forecast_trend" /\ IsArithmeticIncreasing(series)) =>
        \A k \in 1..Len(result.forecasts) :
            /\ RLeBig(result.forecasts[k], RInt(100))
            /\ k > 1 => RLeBig(result.forecasts[k - 1], result.forecasts[k])
            /\ RLeBig(StatedSmoothing(series, Len(series)), result.forecasts[k])

\* three forecasts of the series 10, 20, 30, 40, rising from one to the next
C11_TenToFortyForecast ==
    /\ pc = "forecast_trend"
    /\ series = <<10, 20, 30, 40>>
    /\ horizon = 3
    /\ Len(result.forecasts) = 3
    /\ RLt(result.forecasts[1], result.forecasts[2])
    /\ RLt(result.forecasts[2], result.forecasts[3])

\* C12: every analyzer returns its neutral default for a series shorter than
\* its minimum: velocity (0, stable) below 2 samples; acceleration (0, steady)
\* and momentum (50, neutral) below 3; forecast (no forecasts, 0) below 4;
\* anomalies none and lifecycle (insufficient_data, 50) below 5; seasonality
\* (false, 0) below 2 * period.
C12_ShortSeriesDefaults ==
    /\ (pc = "calculate_trend_velocity" /\ Len(series) < 2) =>
           (result.score = RInt(0) /\ result.direction = "stable")
    /\ (pc = "calculate_trend_acceleration" /\ Len(series) < 3) =>
           (result.score = 0 /\ result.state = "steady")
    /\ (pc = "calculate_trend_momentum" /\ Len(series) < 3) =>
           (SurdCmp(result.momentum, RInt(50)) = 0 /\ result.description = "neutral")
    /\ (pc = "forecast_trend" /\ Len(series) < 4) =>
           (result.forecasts = <<>> /\ result.confidence = 0)
    /\ (pc = "detect_anomalies" /\ Len(series) < 5) => result.anomalies = <<>>
    /\ (pc = "detect_trend_lifecycle" /\ Len(series) < 5) =>
           (result.lifecycle = "insufficient_data" /\ result.score = 50)
    /\ (pc = "analyze_seasonality" /\ Len(series) < 2 * lag) =>
           (~result.has_seasonality /\ result.score = RInt(0))

\* the acceleration of two samples that differ: below the minimum of 3
C12_TwoSamplesAcceleration ==
    /\ pc = "calculate_trend_acceleration"
    /\ Len(series) = 2
    /\ series[1] # series[2]
    /\ result.score = 0

\* C14: for every series of at least 3 samples in 0..100 the momentum score
\* calculate_trend_momentum returns lies in [0, 100].
C14_MomentumInRange ==
    (pc = "calculate_trend_momentum" /\ Len(series) >= 3) =>
        /\ SurdCmp(result.momentum, RInt(0)) >= 0
        /\ SurdCmp(result.momentum, RInt(100)) <= 0

\* The gradient of a sequence ys of at least 2 rationals with unit spacing:
\* the difference of the neighbours at the two ends, half the difference of
\* the two neighbours inside.
StatedGradient(ys) ==
    [i \in 1..Len(ys) |->
        IF i = 1 THEN RSub(ys[2], ys[1])
        ELSE IF i = Len(ys) THEN RSub(ys[i], ys[i - 1])
        ELSE RDiv(RSub(ys[i + 1], ys[i - 1]), RInt(2))]

RECURSIVE RSum(_)
RSum(ys) == IF ys = <<>> THEN RInt(0) ELSE RAdd(Head(ys), RSum(Tail(ys)))

\* the mean of the last 3 entries of ys, of all of them when there are fewer
MeanOfLast3(ys) ==
    IF Len(ys) >= 3 THEN RDiv(RSum(SubSeq(ys, Len(ys) - 2, Len(ys))), RInt(3))
    ELSE RDiv(RSum(ys), RInt(Len(ys)))

REq(a, b) == a.n * b.d = b.n * a.d

\* the recent velocity v of a series of at least 2 samples
StatedVelocity(xs) == MeanOfLast3(StatedGradient([i \in 1..Len(xs) |-> RInt(xs[i])]))

\* the stated velocity class and score of a recent velocity v
StatedVelocityClass(v) ==
    IF RGt(v, RInt(5))
      THEN [direction |-> "rapidly_rising",
            score |-> RMin(RInt(100), RAdd(RInt(50), RMul(RInt(2), RAbs(v))))]
    ELSE IF RGt(v, RInt(1)) /\ RLe(v, RInt(5))
      THEN [direction |-> "rising", score |-> RAdd(RInt(60), RMul(RInt(3), RAbs(v)))]
    ELSE IF RLt(v, RInt(-5))
      THEN [direction |-> "rapidly_falling",
            score |-> RMax(RInt(0), RSub(RInt(50), RMul(RInt(2), RAbs(v))))]
    ELSE IF RGe(v, RInt(-5)) /\ RLt(v, RInt(-1))
      THEN [direction |-> "falling", score |-> RSub(RInt(40), RMul(RInt(3), RAbs(v)))]
    ELSE [direction |-> "stable", score |-> RInt(50)]

\* C15: for every series of at least 2 samples calculate_trend_velocity
\* classifies the recent velocity v (mean of the last 3 gradient values, of all
\* when fewer): v > 5 rapidly_rising, min(100, 50 + 2|v|); 1 < v <= 5 rising,
\* 60 + 3|v|; v < -5 rapidly_falling, max(0, 50 - 2|v|); -5 <= v < -1 falling,
\* 40 - 3|v|; otherwise stable, 50.
C15_VelocityClasses ==
    (pc = "calculate_trend_velocity" /\ Len(series) >= 2) =>
        /\ result.direction = StatedVelocityClass(StatedVelocity(series)).direction
        /\ REq(result.score, StatedVelocityClass(StatedVelocity(series)).score)

\* a recent velocity of exactly 5 is classed rising, with score 75
C15_VelocityFiveIsRising ==
    /\ pc = "calculate_trend_velocity"
    /\ Len(series) >= 2
    /\ REq(StatedVelocity(series), RInt(5))
    /\ result.direction = "rising"
    /\ REq(result.score, RInt(75))

\* the recent acceleration a of a series of at least 3 samples
StatedAcceleration(xs) ==
    MeanOfLast3(StatedGradient(StatedGradient([i \in 1..Len(xs) |-> RInt(xs[i])])))

\* the stated acceleration class of a recent acceleration a
StatedAccelerationClass(a) ==
    IF RGt(a, RInt(2)) THEN [state |-> "accelerating", score |-> 80]
    ELSE IF RGt(a, Rat(1, 2)) THEN [state |-> "slowly_accelerating", score |-> 65]
    ELSE IF RLt(a, RInt(-2)) THEN [state |-> "decelerating", score |-> 30]
    ELSE IF RLt(a, Rat(-1, 2)) THEN [state |-> "slowly_decelerating", score |-> 45]
    ELSE [state |-> "steady", score |-> 50]

\* C16: for every series of at least 3 samples calculate_trend_acceleration
\* classifies the recent acceleration a (mean of the last 3 values of the
\* gradient of the gradient): a > 2 accelerating, 80; a > 0.5
\* slowly_accelerating, 65; a < -2 decelerating, 30; a < -0.5
\* slowly_decelerating, 45; otherwise steady, 50.
C16_AccelerationClasses ==
    (pc = "calculate_trend_acceleration" /\ Len(series) >= 3) =>
        result = StatedAccelerationClass(StatedAcceleration(series))

\* a series of more than 3 samples whose recent acceleration is above 2 while
\* the mean of all its acceleration values is not
C16_RecentAboveTwo ==
    /\ pc = "calculate_trend_acceleration"
    /\ Len(series) > 3
    /\ RGt(StatedAcceleration(series), RInt(2))
    /\ RLe(RDiv(RSum(StatedGradient(StatedGradient([i \in 1..Len(series) |->
                                                      RInt(series[i])]))),
                 RInt(Len(series))),
            RInt(2))
    /\ result.state = "accelerating"

\* the population variance of a series: the mean squared deviation from the mean
StatedVariance(xs) ==
    RDiv(RSum([i \in 1..Len(xs) |->
                  RMul(RSub(RInt(xs[i]), Mean(xs)), RSub(RInt(xs[i]), Mean(xs)))]),
         RInt(Len(xs)))

\* growth score: min(100, 50 + growth%), growth% the change from the average of
\* the first 3 samples to the average of the last 3, in percent of the former
\* (0 when the former is 0)
StatedGrowthScore(xs) ==
    LET recent == RDiv(RSum([i \in 1..3 |-> RInt(xs[Len(xs) - 3 + i])]), RInt(3))
        early  == RDiv(RSum([i \in 1..3 |-> RInt(xs[i])]), RInt(3))
        growth == IF RGt(early, RInt(0))
                    THEN RMul(RInt(100), RDiv(RSub(recent, early), early))
                  ELSE RInt(0)
    IN  RMin(RInt(100), RAdd(RInt(50), growth))

\* 100 - 20 * (std / (mean + 1)) as q + c * sqrt(w): std is sqrt(var), and
\* sqrt(var) / (mean + 1) = sqrt(n^2 * var) / (n * mean + n)
StatedConsistencyRaw(xs) ==
    LET n == Len(xs)
    IN  Surd(RInt(100), RDiv(RInt(-20), RAdd(RMul(RInt(n), Mean(xs)), RInt(n))),
             RMul(RInt(n * n), StatedVariance(xs)).n)

\* 0.3 * growth + 0.3 * velocity + 0.2 * consistency + 0.2 * level
StatedMomentum(xs) ==
    LET rational == RAdd(RAdd(RMul(Rat(3, 10), StatedGrowthScore(xs)),
                              RMul(Rat(3, 10),
                                   StatedVelocityClass(StatedVelocity(xs)).score)),
                         RMul(Rat(2, 10), RMin(RInt(100), RInt(xs[Len(xs)]))))
        raw      == StatedConsistencyRaw(xs)
    IN  IF SurdCmp(raw, RInt(0)) < 0 THEN Surd(rational, RInt(0), 0)
        ELSE Surd(RAdd(rational, RMul(Rat(2, 10), raw.q)), RMul(Rat(2, 10), raw.c), raw.w)

\* s and t, both over the same root, are the same number
SurdEq(s, t) ==
    /\ s.w = t.w
    /\ SurdCmp(Surd(RSub(s.q, t.q), RSub(s.c, t.c), s.w), RInt(0)) = 0

\* the stated description of a momentum m
StatedMomentumDescription(m) ==
    IF SurdCmp(m, RInt(75)) > 0 THEN "strong_upward"
    ELSE IF SurdCmp(m, RInt(60)) > 0 /\ SurdCmp(m, RInt(75)) <= 0 THEN "moderate_upward"
    ELSE IF SurdCmp(m, RInt(40)) > 0 /\ SurdCmp(m, RInt(60)) <= 0 THEN "neutral"
    ELSE IF SurdCmp(m, RInt(25)) > 0 /\ SurdCmp(m, RInt(40)) <= 0 THEN "moderate_downward"
    ELSE "strong_downward"

\* C17: for every series of at least 3 samples calculate_trend_momentum returns
\* 0.3 * growth + 0.3 * velocity + 0.2 * consistency + 0.2 * level of the four
\* factor scores, described strong_upward iff momentum > 75, moderate_upward
\* iff 60 < momentum <= 75, neutral iff 40 < momentum <= 60, moderate_downward
\* iff 25 < momentum <= 40, strong_downward otherwise.
C17_MomentumBlend ==
    (pc = "calculate_trend_momentum" /\ Len(series) >= 3) =>
        /\ SurdEq(result.momentum, StatedMomentum(series))
        /\ result.description = StatedMomentumDescription(StatedMomentum(series))

\* a momentum of exactly 60, described neutral
C17_MomentumSixtyIsNeutral ==
    /\ pc = "calculate_trend_momentum"
    /\ Len(series) >= 3
    /\ SurdCmp(result.momentum, RInt(60)) = 0
    /\ result.description = "neutral"

\* the linear trend term (x[last] - x[0]) / length
StatedTrend(xs) == RDiv(RSub(RInt(xs[Len(xs)]), RInt(xs[1])), RInt(Len(xs)))

\* s[last] + trend * k before clamping
StatedRawForecast(xs, k) ==
    RAdd(StatedSmoothing(xs, Len(xs)), RMul(StatedTrend(xs), RInt(k)))

\* clamp(s[last] + trend * k, 0, 100)
StatedForecast(xs, k) ==
    IF RLt(StatedRawForecast(xs, k), RInt(0)) THEN RInt(0)
    ELSE IF RGt(StatedRawForecast(xs, k), RInt(100)) THEN RInt(100)
    ELSE StatedRawForecast(xs, k)

\* C18: for every series of at least 4 samples and horizon N forecast_trend
\* returns exactly N forecasts, the k-th equal to
\* clamp(s[last] + trend * k, 0, 100) with s the alpha = 0.3 exponential
\* smoothing and trend = (x[last] - x[0]) / length, hence within [0, 100];
\* the confidence is 80 if the variance is below 100, 60 if below 300, else 40.
C18_ForecastFormula ==
    (pc = "forecast_trend" /\ Len(series) >= 4) =>
        /\ Len(result.forecasts) = horizon
        /\ \A k \in 1..horizon :
              /\ result.forecasts[k] = StatedForecast(series, k)
              /\ RGe(result.forecasts[k], RInt(0))
              /\ RLe(result.forecasts[k], RInt(100))
        /\ result.confidence =
              IF RLt(StatedVariance(series), RInt(100)) THEN 80
              ELSE IF RLt(StatedVariance(series), RInt(300)) THEN 60 ELSE 40

\* three forecasts of a falling series: the first above 0, the third held at
\* 0 by the clamp
C18_ForecastHeldAtZero ==
    /\ pc = "forecast_trend"
    /\ Len(series) >= 4
    /\ horizon = 3
    /\ RGt(result.forecasts[1], RInt(0))
    /\ RLt(StatedRawForecast(series, 3), RInt(0))
    /\ result.forecasts[3] = RInt(0)

\* the square of the population z-score of sample i of a series of non-zero
\* variance; |z| > 2 iff it exceeds 4, |z| > 3 iff it exceeds 9
StatedZSquared(xs, i) ==
    RDiv(RMul(RSub(RInt(xs[i]), Mean(xs)), RSub(RInt(xs[i]), Mean(xs))),
         StatedVariance(xs))

\* |z| > k for the z-score of position i as numpy computes it: decided by its
\* exact square unless that is k^2, and then by the doubles
StatedZAbove(xs, i, k) ==
    \/ RGt(StatedZSquared(xs, i), RInt(k * k))
    \/ /\ RGe(StatedZSquared(xs, i), RInt(k * k))
       /\ RLe(StatedZSquared(xs, i), RInt(k * k))
       /\ ZScoreAbove(xs, i, k)

\* the positions 1..Len(xs) whose z-score satisfies |z| > 2
StatedAnomalies(xs) == {i \in 1..Len(xs) : StatedZAbove(xs, i, 2)}

StatedAutocorrelation(xs, p) ==
    RDiv(RSum([i \in 1..(Len(xs) - p) |->
                  RMul(RSub(RInt(xs[i]), Mean(xs)), RSub(RInt(xs[i + p]), Mean(xs)))]),
         RMul(RInt(Len(xs) - p), StatedVariance(xs)))

\* C20: for every series of at least 2 * period samples with non-zero variance
\* analyze_seasonality returns (true, autocorr * 100) when the lag-period
\* autocorrelation exceeds 0.3, with the strong message iff it exceeds 0.5 and
\* the moderate one otherwise, and (false, autocorr * 100) when it is at most
\* 0.3.
C20_SeasonalityByAutocorrelation ==
    (pc = "analyze_seasonality" /\ Len(series) >= 2 * lag /\ ~IsConstant(series)) =>
        LET autocorr == StatedAutocorrelation(series, lag)
        IN  /\ result.has_seasonality <=> RGt(autocorr, Rat(3, 10))
            /\ result.score = RMul(autocorr, RInt(100))
            /\ result.description =
                  IF RGt(autocorr, Rat(1, 2)) THEN "Strong seasonal pattern detected"
                  ELSE IF RGt(autocorr, Rat(3, 10)) THEN "Moderate seasonal pattern"
                  ELSE "No significant seasonal pattern"

\* two weeks of samples with a moderate weekly pattern
C20_ModerateWeeklyPattern ==
    /\ pc = "analyze_seasonality"
    /\ lag = Period
    /\ Len(series) >= 2 * Period
    /\ result.has_seasonality
    /\ result.description = "Moderate seasonal pattern"
    /\ RLe(result.score, RInt(50))

-----------------------------------------------------------------------------
(* Properties of cross_correlate_trends, checked under SpecCorr.           *)

\* Pearson's r of the first n points of xs and ys, from the deviations
\* n*x[i] - sum(x): r = Sxy / sqrt(Sxx * Syy)
RECURSIVE DevProd(_, _, _)
DevProd(xs, ys, i) ==
    IF i > Len(xs) THEN 0
    ELSE (Len(xs) * xs[i] - Sum(xs)) * (Len(ys) * ys[i] - Sum(ys)) + DevProd(xs, ys, i + 1)

CommonLen(i, j) == Min2(Len(trends[i].data), Len(trends[j].data))
Left(i, j) == FirstK(trends[i].data, CommonLen(i, j))
Right(i, j) == FirstK(trends[j].data, CommonLen(i, j))
Sxy(i, j) == DevProd(Left(i, j), Right(i, j), 1)
Sxx(i, j) == DevProd(Left(i, j), Left(i, j), 1)
Syy(i, j) == DevProd(Right(i, j), Right(i, j), 1)

\* sign of |r| - p/q for the pair (i, j)
PearsonAbsCmp(i, j, p, q) ==
    ProdCmp(<<q, q, Abs(Sxy(i, j)), Abs(Sxy(i, j))>>, <<p, p, Sxx(i, j), Syy(i, j)>>)

Pairs == {ij \in (1..Len(trends)) \X (1..Len(trends)) : ij[1] < ij[2]}

Qualifies(i, j) ==
    /\ CommonLen(i, j) >= 3
    /\ Sxx(i, j) > 0
    /\ Syy(i, j) > 0
    /\ PearsonAbsCmp(i, j, 1, 2) > 0

\* the positions of result that name the unordered pair {i, j}
EntriesFor(i, j) ==
    {k \in 1..Len(result) :
        {result[k].keyword1, result[k].keyword2} = {trends[i].kw, trends[j].kw}}

\* the pair an entry names
PairOf(entry) ==
    CHOOSE ij \in Pairs :
        {entry.keyword1, entry.keyword2} = {trends[ij[1]].kw, trends[ij[2]].kw}

\* sign of |r| of pair a minus |r| of pair b
PairAbsOrder(a, b) ==
    ProdCmp(<<Abs(Sxy(a[1], a[2])), Abs(Sxy(a[1], a[2])), Sxx(b[1], b[2]), Syy(b[1], b[2])>>,
            <<Abs(Sxy(b[1], b[2])), Abs(Sxy(b[1], b[2])), Sxx(a[1], a[2]), Syy(a[1], a[2])>>)

\* the recorded coefficient is exactly 1
CoefficientIsOne(entry) ==
    /\ entry.correlation.cov > 0
    /\ ProdCmp(<<entry.correlation.cov, entry.correlation.cov>>,
               <<entry.correlation.w1, entry.correlation.w2>>) = 0

IdenticalPair(i, j) ==
    /\ trends[i].data = trends[j].data
    /\ Len(trends[i].data) >= 3

OneStrongPositive(i, j) ==
    /\ Cardinality(EntriesFor(i, j)) = 1
    /\ \A k \in EntriesFor(i, j) :
          /\ CoefficientIsOne(result[k])
          /\ result[k].strength = "strong"
          /\ result[k].type = "positive"

\* C8 as stated: for every pair of keywords mapped to two identical series of
\* length at least 3, cross_correlate_trends returns exactly one Correlation
\* for the pair, with coefficient 1.0, strength strong and type positive.
C8_IdenticalSeries ==
    pc = "cross_correlate_trends" =>
        \A ij \in Pairs : IdenticalPair(ij[1], ij[2]) => OneStrongPositive(ij[1], ij[2])

\* C8 amended: the same for every pair of keywords mapped to two identical
\* series of length at least 3 that are not constant (non-zero variance).
C8_IdenticalNonConstantSeries ==
    pc = "cross_correlate_trends" =>
        \A ij \in Pairs :
            (IdenticalPair(ij[1], ij[2]) /\ ~IsConstant(trends[ij[1]].data))
                => OneStrongPositive(ij[1], ij[2])

\* two keywords with one non-constant series of 3 points, correlated
C8_IdenticalPairCorrelated ==
    /\ pc = "cross_correlate_trends"
    /\ Len(trends) = 2
    /\ IdenticalPair(1, 2)
    /\ ~IsConstant(trends[1].data)
    /\ Len(result) = 1

\* C9: cross_correlate_trends returns exactly one entry for each unordered
\* keyword pair whose series, cut to the shorter length, have at least 3
\* points, non-zero variances and |r| > 0.5, and no other entry; an entry is
\* strong iff |r| > 0.7 (moderate otherwise) and positive iff r > 0 (negative
\* otherwise); the list is in non-increasing order of |r|; fewer than 2
\* series give the empty list.
C9_CorrelationList ==
    pc = "cross_correlate_trends" =>
        /\ Len(trends) < 2 => result = <<>>
        /\ \A ij \in Pairs :
              Cardinality(EntriesFor(ij[1], ij[2]))
                  = IF Qualifies(ij[1], ij[2]) THEN 1 ELSE 0
        /\ \A k \in 1..Len(result) :
              /\ \E ij \in Pairs : k \in EntriesFor(ij[1], ij[2])
              /\ result[k].strength
                    = IF PearsonAbsCmp(PairOf(result[k])[1], PairOf(result[k])[2], 7, 10) > 0
                        THEN "strong" ELSE "moderate"
              /\ result[k].type
                    = IF Sxy(PairOf(result[k])[1], PairOf(result[k])[2]) > 0
                        THEN "positive" ELSE "negative"
        /\ \A k \in 1..(Len(result) - 1) :
              PairAbsOrder(PairOf(result[k]), PairOf(result[k + 1])) >= 0

\* a result of two entries, the stronger one produced by the later pair
C9_SortMovesAnEntry ==
    /\ pc = "cross_correlate_trends"
    /\ Len(result) >= 2
    /\ result[1].strength = "strong"
    /\ \E k \in 2..Len(result) : result[k].strength = "moderate"
    /\ PairOf(result[1])[1] > 1

-----------------------------------------------------------------------------
(* Properties of calculate_trend_score, checked under SpecScore.           *)

\* C1: for every video, list of topics and list of related tags, the score
\* returned by calculate_trend_score lies in the closed range [0, 100].
C1_ScoreInRange ==
    pc = "calculate_trend_score" => (result.score >= 0 /\ result.score <= 100)

\* C2: called with an empty topic list and an empty related-tag list,
\* calculate_trend_score returns exactly score 50 and a feedback of exactly
\* one neutral message, whatever the title, description, tags and upload
\* date are.
C2_NeutralWithoutData ==
    (pc = "calculate_trend_score" /\ topics = <<>> /\ tags = <<>>) =>
        /\ result.score = 50
        /\ result.feedback = <<NeutralMessage>>

\* a call without data for a recent video whose title is not empty
C2_NoDataRecentVideo ==
    /\ pc = "calculate_trend_score"
    /\ topics = <<>>
    /\ tags = <<>>
    /\ video.title # <<>>
    /\ timeliness(video.upload_date).bonus = 15
    /\ result.score = 50

\* the input has the growing topic "python tutorial"
HasGrowingPythonTutorial ==
    \E i \in 1..Len(topics) :
        lower(topics[i].name) = PythonTutorial /\ topics[i].lifecycle = "growing"

TitleHasTopic(title) ==
    \E i \in 1..Len(topics) : Contains(lower(title), lower(topics[i].name))

TitleHasRelatedTag(title) ==
    \E k \in 1..Len(tags) : Contains(lower(title), lower(tags[k].tag))

\* neither the description nor the tags of the video match a topic
DescriptionAndTagsMatchNoTopic ==
    \A i \in 1..Len(topics) :
        /\ ~Contains(lower(video.description), lower(topics[i].name))
        /\ \A k \in 1..Len(video.tags) : lower(video.tags[k]) # lower(topics[i].name)

\* the score of the same call with another title
ScoreWithTitle(title) ==
    calculate_trend_score([video EXCEPT !.title = title], topics, tags).score

\* C6 as stated: with the growing topic "python tutorial" as input and every
\* other input identical, the score for a title containing "python tutorial"
\* is at least 27 higher than for a title containing no matching keyword.
C6_TitleMatchAdds27 ==
    (/\ pc = "calculate_trend_score"
     /\ HasGrowingPythonTutorial
     /\ Contains(lower(video.title), PythonTutorial)) =>
        \A title \in Titles :
            ~TitleHasTopic(title) => result.score >= ScoreWithTitle(title) + 27

\* C6 amended: with the growing topic "python tutorial" as input, every
\* other input identical and neither the description nor the tags matching
\* a topic, the score for a title containing "python tutorial" is either
\* the cap 100 or at least 27 higher than for a title containing no
\* matching keyword (no topic name and no related tag).
C6_TitleMatchAdds27UnlessCapped ==
    (/\ pc = "calculate_trend_score"
     /\ HasGrowingPythonTutorial
     /\ Contains(lower(video.title), PythonTutorial)
     /\ DescriptionAndTagsMatchNoTopic) =>
        \A title \in Titles :
            (~TitleHasTopic(title) /\ ~TitleHasRelatedTag(title)) =>
                \/ result.score = 100
                \/ result.score >= ScoreWithTitle(title) + 27

\* the title matches the growing topic, nothing else does, and the score is
\* below the cap and 27 or more above that of a title without keyword
C6_TitleMatchBelowCap ==
    /\ pc = "calculate_trend_score"
    /\ HasGrowingPythonTutorial
    /\ Contains(lower(video.title), PythonTutorial)
    /\ DescriptionAndTagsMatchNoTopic
    /\ Len(tags) >= 2
    /\ result.score < 100
    /\ \E title \in Titles :
          /\ ~TitleHasTopic(title)
          /\ ~TitleHasRelatedTag(title)
          /\ result.score >= ScoreWithTitle(title) + 27


\* the title, the description and the tag set as line 338-340 prepare them
LoweredTitle == lower(video.title)
LoweredDescription == lower(video.description)
LoweredTags == {lower(tag) : tag \in Range(video.tags)}

\* the name of topic i occurs in the title, the description or the tag set
NameOccurs(i, title, desc, tagset) ==
    LET name == lower(topics[i].name)
    IN  Contains(title, name) \/ Contains(desc, name) \/ name \in tagset

StatedLifecycleModifier(topic) ==
    IF "lifecycle" \notin DOMAIN topic THEN 0
    ELSE IF topic.lifecycle = "emerging" THEN 15
    ELSE IF topic.lifecycle = "growing" THEN 12
    ELSE IF topic.lifecycle = "mature" THEN 5
    ELSE IF topic.lifecycle = "declining" THEN -5
    ELSE 0

StatedMomentumBonus(topic) ==
    IF topic.momentum_score > 75 THEN 10
    ELSE IF topic.momentum_score > 60 /\ topic.momentum_score <= 75 THEN 5
    ELSE 0

StatedViralBonus(topic) == IF "viral_indicator" \in DOMAIN topic THEN 20 ELSE 0

StatedForecastBonus(topic) ==
    IF /\ topic.forecast_confidence > 70
       /\ topic.forecast # <<>>
       /\ RGt(topic.forecast[Len(topic.forecast)], RInt(topic.avg_interest))
      THEN 8
    ELSE 0

StatedContribution(topic, base) ==
    base + StatedLifecycleModifier(topic) + StatedMomentumBonus(topic)
    + StatedViralBonus(topic) + StatedForecastBonus(topic)

\* what the matched topics contribute together, for a given base
RECURSIVE SumOver(_, _)
SumOver(indices, base) ==
    IF indices = {} THEN 0
    ELSE LET i == CHOOSE j \in indices : TRUE
         IN  StatedContribution(topics[i], base) + SumOver(indices \ {i}, base)

\* score at the end of the loop over the topics (line 395)
ScoreAfterTopics(title, desc, tagset) ==
    ScanTopics(topics, 1,
               [score |-> 0, feedback_points |-> <<>>, trending_matches |-> 0,
                high_value_matches |-> 0, viral_potential_matches |-> 0,
                emerging_matches |-> 0],
               title, desc, tagset).score

MatchedTopics(title, desc, tagset) ==
    {i \in 1..Len(topics) : NameOccurs(i, title, desc, tagset)}

StatedTopicScore(base) ==
    LET title   == LoweredTitle
        desc    == LoweredDescription
        tagset  == LoweredTags
        matched == MatchedTopics(title, desc, tagset)
        total   == SumOver(matched, base)
    IN  /\ ScoreAfterTopics(title, desc, tagset) = total
        /\ matched # {} => result.score >= Min2(100, total)

\* C21 as stated: each topic whose name occurs in the title, description
\* or tag set contributes, before clamping, a base of 15 plus its lifecycle
\* modifier (+15 emerging, +12 growing, +5 mature, -5 declining, 0
\* otherwise), +10 if momentum > 75 or +5 if 60 < momentum <= 75, +20 if it
\* carries the viral flag, +8 if its forecast confidence > 70 and its last
\* forecast exceeds its average interest; other topics contribute nothing.
C21_MatchedTopicBaseFifteen ==
    pc = "calculate_trend_score" => StatedTopicScore(15)

\* C21 amended: the same contributions with a base of 10 per matched topic.
\* The returned score is the capped sum of these contributions and of
\* additions that are not negative once a topic has matched.
C21_MatchedTopicBaseTen ==
    pc = "calculate_trend_score" => StatedTopicScore(10)

\* the title names a viral emerging topic and a mature topic with a strong
\* forecast: 10 + 15 + 10 + 20 and 10 + 5 + 5 + 8
C21_ViralAndForecastMatched ==
    /\ pc = "calculate_trend_score"
    /\ Len(topics) = 2
    /\ MatchedTopics(LoweredTitle, LoweredDescription, LoweredTags) = {1, 2}
    /\ "viral_indicator" \in DOMAIN topics[1] /\ topics[1].lifecycle = "emerging"
    /\ strong_forecast(topics[2]) /\ topics[2].lifecycle = "mature"
    /\ ScoreAfterTopics(LoweredTitle, LoweredDescription, LoweredTags) = 83


\* lines 397-404: ten points are taken off when no topic matched
ScoreBeforeBonuses ==
    LET title  == LoweredTitle
        desc   == LoweredDescription
        tagset == LoweredTags
    IN  ScoreAfterTopics(title, desc, tagset)
        - (IF MatchedTopics(title, desc, tagset) = {} THEN 10 ELSE 0)

\* the related tags, among the first ten, that the video matches
StatedRelatedMatches ==
    LET title  == LoweredTitle
        desc   == LoweredDescription
        tagset == LoweredTags
    IN  {k \in 1..Len(tags) :
            /\ k <= 10
            /\ LET related_tag == lower(tags[k].tag)
               IN  \/ Contains(title, related_tag)
                   \/ Contains(desc, related_tag)
                   \/ \E vt \in tagset : Contains(vt, related_tag)}

StatedRisingTopics ==
    {i \in 1..Len(topics) : topics[i].velocity \in {"rising", "rapidly_rising"}}

StatedAcceleratingTopics ==
    {i \in 1..Len(topics) :
        topics[i].acceleration \notin {"steady", "decelerating", "slowly_decelerating"}}

StatedCorrelatedTopics ==
    {i \in 1..Len(topics) :
        "correlations" \in DOMAIN topics[i] /\ Len(topics[i].correlations) >= 2}

\* the bonuses that do not depend on the number of qualifying topics
StatedSharedBonuses ==
    (IF StatedRisingTopics # {} THEN 15 ELSE 0)
    + (IF StatedAcceleratingTopics # {} THEN 10 ELSE 0)
    + (IF StatedCorrelatedTopics # {} THEN 5 ELSE 0)

\* the returned score is the capped sum of the score of the matched topics,
\* the related matches, the shared bonuses and one of the given recency
\* bonuses
StatedBonuses(recency) ==
    LET related == 5 * Cardinality(StatedRelatedMatches)
        before  == ScoreBeforeBonuses + related + StatedSharedBonuses
    IN  /\ related <= 50
        /\ \E r \in recency : result.score = Min2(100, before + r)

\* a call that does not end in the neutral score of lines 470-472
ScoredCall == pc = "calculate_trend_score" /\ ~(topics = <<>> /\ tags = <<>>)

\* C22 as stated: +15 once if any topic has rising velocity, +10 once if any
\* topic is accelerating (never for a decelerating or steady topic), +5
\* once if any topic is correlated with at least 2 others; +5 per related
\* match among the first 10 related tags, so at most 50; and exactly one
\* recency bonus of +15, +10 or +5.
C22_ExactlyOneRecencyBonus ==
    ScoredCall => StatedBonuses({15, 10, 5})

\* C22 amended: the same bonuses, with exactly one recency bonus of +15, +10
\* or +5 when the upload date contains "ago" in any letter case, and none
\* otherwise.
C22_RecencyBonusForDatedVideo ==
    ScoredCall =>
        StatedBonuses(IF Contains(lower(video.upload_date), <<"a", "g", "o">>)
                        THEN {15, 10, 5}
                      ELSE {0})

\* two topics rise and accelerate, none is matched, and the video is
\* recent: -10 + 15 + 10 + 15
C22_TwoRisingTopicsOneBonus ==
    /\ ScoredCall
    /\ Cardinality(StatedRisingTopics) = 2
    /\ Cardinality(StatedAcceleratingTopics) = 2
    /\ ScoreBeforeBonuses = -10
    /\ StatedRelatedMatches = {}
    /\ result.score = 30

-----------------------------------------------------------------------------
(* Properties of the topic records, checked under SpecSeries.              *)

\* C23: a topic record carries the viral indicator if and only if
\* detect_anomalies on its series returned at least one anomaly of magnitude
\* extreme; topics with only significant anomalies or none never carry it.
C23_ViralIffExtremeAnomaly ==
    pc = "topic_data" =>
        LET anomalies == detect_anomalies(series).anomalies
        IN  /\ ("viral_indicator" \in DOMAIN result) <=>
                  (\E i \in 1..Len(anomalies) : anomalies[i].magnitude = "extreme")
            /\ (\A i \in 1..Len(anomalies) : anomalies[i].magnitude = "significant") =>
                  "viral_indicator" \notin DOMAIN result

\* a topic whose series has a significant and an extreme anomaly
C23_SignificantAndExtreme ==
    /\ pc = "topic_data"
    /\ result.anomaly_count = 2
    /\ "viral_indicator" \in DOMAIN result
    /\ LET anomalies == detect_anomalies(series).anomalies
       IN  anomalies[1].magnitude = "significant" /\ anomalies[2].magnitude = "extreme"

-----------------------------------------------------------------------------
(* Properties of the steps of analyze_trends, checked under Spec.          *)

\* a step of the running analysis, not the start of the next one
StepOfAnalysis == ~(pc = "done" /\ pc' = "analyze_trends")

\* lines 243-250 run and find at least 2 series
CorrelationStep ==
    /\ pc = "get_trending_topics"
    /\ pc' = "get_related_trends"
    /\ Len(trends) >= 2

\* C24 as stated: once a topic record has been created for a keyword, no
\* later step of the analysis (cross-correlation, sorting, alignment scoring)
\* changes any field of that record or adds a field to it.
C24_RecordsNeverChange ==
    [][StepOfAnalysis =>
          \A i \in 1..Len(topics) : \E j \in 1..Len(topics') : topics'[j] = topics[i]]_vars

\* C24 amended: no later step changes a field the record was created with;
\* cross-correlation adds the one field correlations to every record when at
\* least 2 series were obtained, and no other step adds a field.
C24_OnlyCorrelationsAdded ==
    [][StepOfAnalysis =>
          \A i \in 1..Len(topics) : \E j \in 1..Len(topics') :
              /\ \A f \in DOMAIN topics[i] :
                    f \in DOMAIN topics'[j] /\ topics'[j][f] = topics[i][f]
              /\ DOMAIN topics'[j] \ DOMAIN topics[i] =
                    IF CorrelationStep THEN {"correlations"} ELSE {}]_vars

\* two records have been given their correlations and sorting has moved the
\* record created first
C24_CorrelatedAndSorted ==
    /\ pc = "calculate_trend_score"
    /\ Len(topics) = 2
    /\ \A i \in 1..2 : "correlations" \in DOMAIN topics[i]
    /\ topics[2].name = trends[1].kw
    /\ topics[2] = with_correlations(topic_data(trends[1].kw, trends[1].data),
                                     cross_correlate_trends(trends))

\* cross-correlation has run: a record carries its correlations
CrossCorrelated == \E i \in 1..Len(topics) : "correlations" \in DOMAIN topics[i]

\* every keyword of keywords[:5] has been fetched, and analysed if data came
AllKeywordsAnalysed ==
    /\ Len(InterestCalls) = Len(FirstK(kws, 5))
    /\ Len(topics) =
          Cardinality({k \in 1..Len(InterestCalls) : InterestCalls[k].outcome = "data"})

\* every keyword of keywords[:3] has been asked for its related queries
RelatedFetched == Len(RelatedCalls) = Len(FirstK(kws, 3))

\* no call for interest comes after a call for related queries
InterestBeforeRelated ==
    \A a, b \in 1..Len(calls) :
        (calls[a].call = "related_queries" /\ calls[b].call = "interest_over_time") => b < a

\* the alignment score has been computed
Scored == pc = "done" /\ kws # <<>>

\* C25: cross-correlation starts only after the per-keyword analysis of every
\* fetched keyword has completed, the alignment score is computed only after
\* cross-correlation and the related-tag fetch have completed, and
\* cross-correlation is run only when at least 2 series were obtained.
C25_StagesInOrder ==
    /\ CrossCorrelated => (AllKeywordsAnalysed /\ Len(trends) >= 2)
    /\ (RelatedCalls # <<>> \/ pc = "calculate_trend_score" \/ Scored) =>
          /\ AllKeywordsAnalysed
          /\ Len(trends) >= 2 =>
                \A i \in 1..Len(topics) : "correlations" \in DOMAIN topics[i]
    /\ (pc = "calculate_trend_score" \/ Scored) => RelatedFetched
    /\ InterestBeforeRelated
    /\ Scored =>
          /\ result.trending_topics = topics
          /\ result.trend_tags = tags
          /\ result.trend_score = calculate_trend_score(video, topics, tags).score

\* a finished run in which a fetch failed, two series were correlated and
\* three keywords were asked for related queries
C25_CorrelatedThenScored ==
    /\ Scored
    /\ Len(InterestCalls) >= 3
    /\ \E k \in 1..Len(InterestCalls) : InterestCalls[k].outcome = "raise"
    /\ Len(trends) = 2
    /\ CrossCorrelated
    /\ Len(RelatedCalls) = 3
    /\ tags # <<>>

-----------------------------------------------------------------------------
(* The analyses of several keywords, interleaved.  Each keyword runs the   *)
(* seven analyzer calls of lines 166-184 in their order on its own series; *)
(* the calls of different keywords come in any order.  series and result   *)
(* hold the input and the return of the call made last, trend_history the  *)
(* state of the analyzer object.                                           *)

MaxParallel == 2

ParallelKeywords == <<PythonTutorial, Django, Flask>>

ParallelSeries == {<<0, 0, 0, 0, 0, 100>>, <<60, 50, 45, 40, 35, 30, 25>>}

\* the calls of lines 166-184, in their order
Analyzers ==
    << "calculate_trend_velocity", "calculate_trend_acceleration",
       "detect_trend_lifecycle", "calculate_trend_momentum", "forecast_trend",
       "detect_anomalies", "analyze_seasonality" >>

AnalyzerCall(analyzer, keyword, time_series) ==
    CASE analyzer = "calculate_trend_velocity" -> calculate_trend_velocity(time_series)
      [] analyzer = "calculate_trend_acceleration" -> calculate_trend_acceleration(time_series)
      [] analyzer = "detect_trend_lifecycle" -> detect_trend_lifecycle(time_series, keyword)
      [] analyzer = "calculate_trend_momentum" -> calculate_trend_momentum(time_series)
      [] analyzer = "forecast_trend" -> forecast_trend(time_series, 3)
      [] analyzer = "detect_anomalies" -> detect_anomalies(time_series)
      [] analyzer = "analyze_seasonality" -> analyze_seasonality(time_series, Period)

ParallelInit ==
    /\ pc = "analyzers"
    /\ trends \in {[k \in 1..MaxParallel |-> [kw |-> ParallelKeywords[k], data |-> f[k]]] :
                      f \in [1..MaxParallel -> ParallelSeries]}
    /\ returns = [k \in 1..MaxParallel |-> <<>>]
    /\ gui = <<>>
    /\ series = <<>>
    /\ result = <<>>
    /\ video = NoVideo
    /\ kws = <<>>
    /\ topics = <<>>
    /\ tags = <<>>
    /\ calls = <<>>
    /\ horizon = 3
    /\ lag = Period
    /\ trend_history = <<>>
    /\ analyses = 0

\* the next analyzer call of one of the keywords
AnalyzerStep ==
    /\ pc = "analyzers"
    /\ \E k \in 1..Len(trends) :
          /\ Len(returns[k]) < Len(Analyzers)
          /\ series' = trends[k].data
          /\ result' = AnalyzerCall(Analyzers[Len(returns[k]) + 1], trends[k].kw, trends[k].data)
          /\ returns' = [returns EXCEPT ![k] = Append(@, result')]
    /\ UNCHANGED <<pc, video, kws, topics, trends, tags, calls, horizon, lag,
                 trend_history, analyses, gui>>

SpecParallel == ParallelInit /\ [][AnalyzerStep]_vars

\* the returns of the calls of keyword k are what the record built by the
\* sequential analysis of its series holds
ReturnsAsSequential(k) ==
    LET t == topic_data(trends[k].kw, trends[k].data)
        r == returns[k]
    IN  /\ r[1].direction = t.velocity
        /\ r[2].state = t.acceleration
        /\ r[3].lifecycle = t.lifecycle /\ r[3].description = t.lifecycle_desc
        /\ r[4].description = t.momentum /\ SurdTrunc(r[4].momentum) = t.momentum_score
        /\ r[5].forecasts = t.forecast /\ r[5].confidence = t.forecast_confidence
        /\ Len(r[6].anomalies) = t.anomaly_count
        /\ ("viral_indicator" \in DOMAIN t) <=>
              (\E i \in 1..Len(r[6].anomalies) : r[6].anomalies[i].magnitude = "extreme")
        /\ r[7].has_seasonality = t.is_seasonal

\* the last call was the last one of keyword k
FinishedLast(k) == Len(returns[k]) = Len(Analyzers) /\ series = trends[k].data

-----------------------------------------------------------------------------
(* Short series and the viral indicator, checked under SpecSeries.         *)

\* the record without its viral indicator
WithoutViral(topic) == [f \in DOMAIN topic \ {"viral_indicator"} |-> topic[f]]

\* no anomaly in a series of at most flagged samples, no extreme anomaly in one
\* of at most extreme samples, and a topic of at most extreme samples without
\* the viral indicator and without its part in the score of a match
StatedShortSeriesCalm(flagged, extreme) ==
    /\ (pc = "detect_anomalies" /\ Len(series) <= flagged) => result.anomalies = <<>>
    /\ (pc = "detect_anomalies" /\ Len(series) <= extreme) =>
          \A j \in 1..Len(result.anomalies) : result.anomalies[j].magnitude # "extreme"
    /\ (pc = "topic_data" /\ Len(series) <= extreme) =>
          /\ "viral_indicator" \notin DOMAIN result
          /\ match_base_score(result) = match_base_score(WithoutViral(result))

\* C27 as stated: detect_anomalies never flags a point of a series of 5 or
\* fewer samples and never reports an extreme anomaly for a series of 10 or
\* fewer; a topic of at most 10 samples never carries the viral indicator and
\* never earns the +20 of a viral match.
C27_NoneInFiveNoExtremeInTen == StatedShortSeriesCalm(5, 10)

\* C27: detect_anomalies never flags a point of a series of fewer than 5
\* interest values and never reports an extreme anomaly for a series of fewer
\* than 10; a topic of fewer than 10 samples never carries the viral indicator
\* and never earns the +20 of a viral match.
C27_NoneBelowFiveNoExtremeBelowTen == StatedShortSeriesCalm(4, 9)

\* a topic of 9 samples whose last one has the largest z-score 9 samples
\* allow: an anomaly, not an extreme one
C27_NineSamplesOneSpike ==
    /\ pc = "topic_data"
    /\ Len(series) = 9
    /\ result.anomaly_count = 1
    /\ detect_anomalies(series).anomalies[1].magnitude = "significant"
    /\ "viral_indicator" \notin DOMAIN result

-----------------------------------------------------------------------------
(* The window of src/main.py.  A click on the analyze button runs          *)
(* analyze_video on the main thread; the worker thread it starts runs      *)
(* _perform_analysis and hands every change of the window to the main loop *)
(* with root.after(0, ...), which runs the callbacks in the order they     *)
(* were handed over.  gui.workers holds the threads started so far.        *)

\* analyses the user may start in one run of the window
MaxClicks == 2

\* url_entry.get().strip(), line 236: empty or not
Urls == {<<>>, <<"u">>}

\* the calls of _perform_analysis that can raise (lines 255, 263, 268, 277)
\* and the status each is announced with (lines 254, 262, 267, 276)
Stages == <<"youtube_analyzer.analyze_video", "seo_engine.analyze_seo",
            "trend_analyzer.analyze_trends", "calculate_metrics">>
StageStatus ==
    <<"Extracting video data...", "Analyzing SEO...", "Analyzing trends...",
      "Calculating performance metrics...">>
\* what line 259, 264, 273 or 278 displays
StageDisplay == <<"display_video_info", "display_seo_results",
                  "display_trend_results", "display_metrics">>

\* self.root.after(0, callback, arg)
after(g, callback, arg) ==
    [g EXCEPT !.events = Append(@, [callback |-> callback, arg |-> arg])]

\* lines 288-290
update_status(g, message) == after(g, "status_var.set", message)

\* analyze_video with the button left as it is (line 242 left out)
analyze_video_button_left_enabled(g, url) ==
    IF url = <<>> THEN [g EXCEPT !.dialog = "Please enter a YouTube URL"]
    ELSE [g EXCEPT !.status = "Analyzing video...",
                   !.workers = Append(@, [at |-> "update_status", stage |-> 1])]

\* lines 234-248
analyze_video(g, url) ==
    IF url = <<>> THEN [g EXCEPT !.dialog = "Please enter a YouTube URL"]
    ELSE [g EXCEPT !.button = "disabled",
                   !.status = "Analyzing video...",
                   !.workers = Append(@, [at |-> "update_status", stage |-> 1])]

\* worker w at the step at of stage stage
goto(g, w, at, stage) == [g EXCEPT !.workers[w] = [at |-> at, stage |-> stage]]

\* The next step of worker w in _perform_analysis, lines 250-286; raises tells
\* whether the call it is in raises.
perform_analysis(g, w, raises) ==
    LET me == g.workers[w]
    IN  CASE me.at = "update_status" ->
               update_status(goto(g, w, "call", me.stage), StageStatus[me.stage])
          [] me.at = "call" /\ raises ->
               update_status(after(goto(g, w, "finally", me.stage),
                                   "messagebox.showerror", "Analysis failed"),
                             "Analysis failed")
          [] me.at = "call" /\ ~raises /\ me.stage < Len(Stages) ->
               after(goto(g, w, "update_status", me.stage + 1),
                     StageDisplay[me.stage], w)
          [] me.at = "call" /\ ~raises /\ me.stage = Len(Stages) ->
               after(goto(g, w, "complete", me.stage), StageDisplay[me.stage], w)
          [] me.at = "complete" ->
               update_status(goto(g, w, "finally", me.stage), "Analysis complete!")
          [] me.at = "finally" ->
               after(goto(g, w, "finished", me.stage), "analyze_btn.config", "normal")

\* the main loop runs the callback handed over first
run_callback(g) ==
    LET cb   == Head(g.events)
        rest == [g EXCEPT !.events = Tail(@)]
    IN  CASE cb.callback = "status_var.set" -> [rest EXCEPT !.status = cb.arg]
          [] cb.callback = "messagebox.showerror" -> [rest EXCEPT !.dialog = cb.arg]
          [] cb.callback = "analyze_btn.config" -> [rest EXCEPT !.button = cb.arg]
          [] OTHER -> [rest EXCEPT !.shown = <<cb.callback, cb.arg>>]

analysisVars ==
    <<pc, series, result, video, kws, topics, trends, tags, calls, horizon, lag,
      trend_history, analyses, returns>>

GuiInit ==
    /\ pc = "mainloop"
    /\ gui = [button |-> "normal", status |-> "Ready", dialog |-> "", shown |-> <<>>,
              events |-> <<>>, workers |-> <<>>]
    /\ series = <<>>
    /\ result = <<>>
    /\ video = NoVideo
    /\ kws = <<>>
    /\ topics = <<>>
    /\ trends = <<>>
    /\ tags = <<>>
    /\ calls = <<>>
    /\ horizon = 3
    /\ lag = Period
    /\ trend_history = <<>>
    /\ analyses = 0
    /\ returns = <<>>

\* a click on the analyze button; a disabled button ignores it
ClickAnalyze ==
    /\ pc = "mainloop"
    /\ gui.button = "normal"
    /\ Len(gui.workers) < MaxClicks
    /\ \E url \in Urls : gui' = analyze_video(gui, url)
    /\ UNCHANGED analysisVars

\* a worker thread takes its next step
WorkerStep ==
    /\ pc = "mainloop"
    /\ \E w \in 1..Len(gui.workers), raises \in BOOLEAN :
          /\ gui.workers[w].at # "finished"
          /\ gui' = perform_analysis(gui, w, raises)
    /\ UNCHANGED analysisVars

MainLoop ==
    /\ pc = "mainloop"
    /\ gui.events # <<>>
    /\ gui' = run_callback(gui)
    /\ UNCHANGED analysisVars

GuiNext == ClickAnalyze \/ WorkerStep \/ MainLoop

\* Threads that can run are run and the main loop keeps taking callbacks.
SpecGui ==
    GuiInit /\ [][GuiNext]_vars /\ WF_vars(WorkerStep) /\ WF_vars(MainLoop)

\* the workers that have not finished, and those inside a call that fetches
Running == {w \in 1..Len(gui.workers) : gui.workers[w].at # "finished"}
Fetching ==
    {w \in Running : /\ gui.workers[w].at = "call"
                     /\ Stages[gui.workers[w].stage] \in
                           {"youtube_analyzer.analyze_video",
                            "trend_analyzer.analyze_trends"}}

\* C28: from the start of a worker until it has finished the analyze button
\* is disabled, so at most one worker runs at a time and no two analyses use
\* the fetch client at once; after every analysis, failed or not, the button
\* is enabled again.
C28_ButtonGuardsWorker ==
    /\ [](Running # {} => gui.button = "disabled")
    /\ [](Cardinality(Running) <= 1)
    /\ [](Cardinality(Fetching) <= 1)
    /\ (gui.button = "disabled") ~> (gui.button = "normal")

\* a second analysis fetching trends after the first one failed and the button
\* was enabled again
C28_SecondAnalysisAfterFailure ==
    /\ Len(gui.workers) = 2
    /\ gui.workers[1].at = "finished" /\ gui.workers[1].stage = 1
    /\ gui.workers[2].at = "call" /\ gui.workers[2].stage = 3
    /\ gui.button = "disabled"
    /\ gui.dialog = "Analysis failed"

-----------------------------------------------------------------------------
(* get_trending_topics on its own, called with up to MaxKeywords keywords: *)
(* more than the five that line 142 keeps.                                 *)

MaxKeywords == 6

TopicKeywords ==
    << PythonTutorial, Django, Flask, <<"n", "u", "m", "p", "y">>,
       <<"p", "a", "n", "d", "a", "s">>, <<"s", "c", "i", "p", "y">>,
       <<"r", "u", "s", "t">> >>

TopicsInit ==
    /\ pc = "get_trending_topics"
    /\ kws \in {FirstK(TopicKeywords, n) : n \in 1..MaxKeywords}
    /\ video = NoVideo
    /\ result = InitialResults
    /\ topics = <<>>
    /\ trends = <<>>
    /\ tags = <<>>
    /\ calls = <<>>
    /\ series = <<>>
    /\ horizon = 3
    /\ lag = Period
    /\ trend_history = <<>>
    /\ analyses = 0
    /\ returns = <<>>
    /\ gui = <<>>

TopicsNext == InterestRaises \/ InterestEmpty \/ InterestAnalysed \/ FinishTopics

SpecTopics == TopicsInit /\ [][TopicsNext]_vars

\* the positions of the returned list that hold a topic of the keyword
TopicsNamed(keyword) ==
    {i \in 1..Len(result.trending_topics) : result.trending_topics[i].name = keyword}

\* C29: a failure for one keyword drops only that keyword: each of the first
\* 5 keywords is asked for once, the ones whose fetch returned a non-empty
\* series have exactly one topic in the returned list and the others none;
\* at most 5 topics are returned, in order of non-increasing score.
C29_FailureDropsOnlyItsKeyword ==
    pc = "get_related_trends" =>
        /\ Len(InterestCalls) = Min2(5, Len(kws))
        /\ \A k \in 1..Len(InterestCalls) :
              /\ InterestCalls[k].keyword = kws[k]
              /\ Cardinality(TopicsNamed(kws[k])) =
                    IF InterestCalls[k].outcome = "data" THEN 1 ELSE 0
        /\ Len(result.trending_topics) <= 5
        /\ \A i, j \in 1..Len(result.trending_topics) :
              i < j => result.trending_topics[i].score >= result.trending_topics[j].score

\* six keywords: the second raises, the fourth comes back empty, the sixth is
\* not asked for, and the topics of the third and the fifth are returned
\* ahead of the first's
C29_LaterKeywordFirst ==
    /\ pc = "get_related_trends"
    /\ Len(kws) = 6
    /\ Len(InterestCalls) = 5
    /\ InterestCalls[2].outcome = "raise"
    /\ InterestCalls[4].outcome = "empty"
    /\ Len(result.trending_topics) = 3
    /\ result.trending_topics[1].name = kws[3]
    /\ result.trending_topics[2].name = kws[5]
    /\ result.trending_topics[3].name = kws[1]
    /\ result.trending_topics[2].score > result.trending_topics[3].score

-----------------------------------------------------------------------------
(* C30: for every series with values in [0,100], the comprehensive score   *)
(* stored in a topic record lies in [0,100].  Checked on the record of     *)
(* lines 196-227 and on the score of lines 186-193 computed for every      *)
(* non-empty series of the pool, those whose momentum is negative          *)
(* included.                                                               *)

InPercentRange(xs) == \A i \in 1..Len(xs) : xs[i] >= 0 /\ xs[i] <= 100

C30_ScoreInRange ==
    pc \in {"topic_data", "comprehensive_score"} /\ InPercentRange(series)
      => result.score >= 0 /\ result.score <= 100

\* a series whose momentum score is negative, its comprehensive score in range
C30_NegativeMomentumScored ==
    /\ pc = "comprehensive_score"
    /\ InPercentRange(series)
    /\ Len(series) >= 3
    /\ SurdCmp(calculate_trend_momentum(series).momentum, RInt(0)) < 0
    /\ result.score >= 0
    /\ result.score <= 100

=============================================================================
